---- MODULE Spec2Model ----
(***************************************************************************)
(* Model of the coconut-billing calculation engine (src/src/core.py) and   *)
(* of the history ledger (src/src/persistence.py).                         *)
(*                                                                         *)
(* A Python Decimal is the record [s, c, e]: sign (0 or 1), coefficient    *)
(* (a natural number) and exponent, denoting (-1)^s * c * 10^e.  Text is a *)
(* sequence of one-character strings, so that strip() and lower() are      *)
(* computed and not assumed.  An optional value is <<>> (absent) or <<v>>. *)
(***************************************************************************)
EXTENDS Integers, Sequences, FiniteSets, TLC

VARIABLES
    input_data,   \* calculate: the CalculationInput of the last call, <<>> before any
    outcome,      \* calculate: what the last call raised or returned, <<>> before any
    labor_given,  \* calculate: whether the caller supplied labor_percent
    ledger,       \* history.csv: the stored rows, in file order
    now,          \* the clock behind datetime.utcnow(), in seconds
    last_op,      \* the ledger operation that ran last
    pre_rows,     \* deduplicate_history: the rows it read
    removed,      \* deduplicate_history: the count it returned
    range_out,    \* voucher_range: what the last request computed, <<>> before any
    slips,        \* the slips directory: file name -> content
    range_reports, \* the range_reports directory: file name -> content
    save_out,     \* the last save request and what it returned, <<>> before any
    first_saved,  \* slip key -> the content given by the first save under that key
    dedup_pc,     \* a deduplicate_history in flight: "idle", or "read" once it has read
    dedup_rows,   \* the rows the deduplicate_history in flight has read
    appended,     \* the row of the last append_history a web request completed
    history_csv,  \* history.csv as lines of cells: <<>> while there is no file
    file_out,     \* the last append_history on history_csv: the file before it
    run_out       \* the last run of a front-end's calculate-and-record handler

vars == <<input_data, outcome, labor_given, ledger, now, last_op, pre_rows, removed,
          range_out, slips, range_reports, save_out, first_saved,
          dedup_pc, dedup_rows, appended, history_csv, file_out, run_out>>

calc_vars == <<input_data, outcome, labor_given>>
ledger_vars == <<ledger, now, last_op, pre_rows, removed>>
report_vars == <<range_out>>
artifact_vars == <<slips, range_reports, save_out, first_saved>>
race_vars == <<dedup_pc, dedup_rows, appended>>
file_vars == <<history_csv, file_out>>
front_vars == <<run_out>>

None == <<>>
Some(v) == <<v>>

(***************************************************************************)
(* Bounds of the model.                                                    *)
(***************************************************************************)
MaxNuts == 10
MaxPriceCoeff == 12
MaxRows == 3
MaxClock == 1
MaxVoucher == 10
MaxSlipNuts == 2

(***************************************************************************)
(* decimal: the part of Python's decimal module that core.py uses.         *)
(* Coefficients of the model stay far below 10^Prec, so the context never  *)
(* rounds a product or a difference; Prec is felt through quantize, which  *)
(* signals InvalidOperation when an exponent makes the result too long.    *)
(***************************************************************************)
Prec == 28

RECURSIVE Pow10(_)
Pow10(k) == IF k <= 0 THEN 1 ELSE 10 * Pow10(k - 1)

RECURSIVE NumDigits(_)
NumDigits(c) == IF c < 10 THEN 1 ELSE 1 + NumDigits(c \div 10)

Dec(s, c, e) == [s |-> s, c |-> c, e |-> e]

\* Decimal(n) for a Python int n
DecFromInt(n) == IF n < 0 THEN Dec(1, 0 - n, 0) ELSE Dec(0, n, 0)

\* the coefficient with its sign, and back
Signed(d) == IF d.s = 1 THEN 0 - d.c ELSE d.c
Abs(i) == IF i < 0 THEN 0 - i ELSE i

\* c / d rounded to an integer, ROUND_HALF_EVEN (c >= 0, d > 0)
RoundHalfEvenDiv(c, d) ==
    LET q == c \div d
        r == c % d
    IN  IF 2 * r > d \/ (2 * r = d /\ q % 2 = 1) THEN q + 1 ELSE q

\* the context's rounding of a result to Prec significant digits
DecFix(d) ==
    IF NumDigits(d.c) <= Prec
    THEN d
    ELSE LET k == NumDigits(d.c) - Prec
         IN  Dec(d.s, RoundHalfEvenDiv(d.c, Pow10(k)), d.e + k)

DecMul(a, b) == DecFix(Dec((a.s + b.s) % 2, a.c * b.c, a.e + b.e))

DecNeg(a) == Dec(1 - a.s, a.c, a.e)

DecAdd(a, b) ==
    LET e == IF a.e < b.e THEN a.e ELSE b.e
        sum == Signed(a) * Pow10(a.e - e) + Signed(b) * Pow10(b.e - e)
        s == IF sum < 0 THEN 1
             ELSE IF sum > 0 THEN 0
             ELSE IF a.s = 1 /\ b.s = 1 THEN 1 ELSE 0
    IN  DecFix(Dec(s, Abs(sum), e))

DecSub(a, b) == DecAdd(a, DecNeg(b))

\* a / Decimal("100"): exact; the quotient's trailing zeros are removed while
\* its exponent is below the ideal exponent a.e
RECURSIVE DecReduce(_, _)
DecReduce(d, ideal) ==
    IF d.e < ideal /\ d.c # 0 /\ d.c % 10 = 0
    THEN DecReduce(Dec(d.s, d.c \div 10, d.e + 1), ideal)
    ELSE d

DecDivHundred(a) ==
    IF a.c = 0 THEN a ELSE DecReduce(Dec(a.s, a.c, a.e - 2), a.e)

\* a <= Decimal("0")
DecLeqZero(a) == a.s = 1 \/ a.c = 0

\* a.quantize(Decimal 10^exp, rounding=ROUND_HALF_EVEN): <<>> when it signals
\* InvalidOperation (the result would need more than Prec digits)
Quantize(a, exp) ==
    IF a.c = 0 THEN Some(Dec(a.s, 0, exp))
    ELSE IF NumDigits(a.c) + a.e - exp > Prec THEN None
    ELSE LET c == IF a.e >= exp
                  THEN a.c * Pow10(a.e - exp)
                  ELSE RoundHalfEvenDiv(a.c, Pow10(exp - a.e))
         IN  IF NumDigits(c) > Prec THEN None ELSE Some(Dec(a.s, c, exp))

\* int(d) for a Decimal d with exponent 0
DecToInt(d) == Signed(d)

(***************************************************************************)
(* core.py: the calculation engine.                                        *)
(***************************************************************************)

\* the dataclass constructor; labor_percent defaults to Decimal("11")
CalculationInput(invoice_no, client_no, client_name, total_nuts, price, date, labor) ==
    [invoice_no |-> invoice_no,
     client_no |-> client_no,
     client_name |-> client_name,
     total_nuts |-> total_nuts,
     price_each_rupees |-> price,
     date |-> date,
     labor_percent |-> IF labor = None THEN Dec(0, 11, 0) ELSE labor[1]]

\* (a variant of the checks that also turns client number 0 away)
ValidationError_rejecting_client_zero(input) ==
    IF input.total_nuts <= 0
    THEN Some("Total coconuts must be a positive integer")
    ELSE IF DecLeqZero(input.price_each_rupees)
    THEN Some("Price per coconut must be a positive number")
    ELSE IF input.invoice_no = <<>>
    THEN Some("V.No. (invoice number) must be a non-empty string")
    ELSE IF input.client_no <= 0
    THEN Some("Client number must be >= 0")
    ELSE None

\* the four checks at the head of calculate, in order: the message of the
\* ValueError raised, <<>> when the input passes
ValidationError(input) ==
    IF input.total_nuts <= 0
    THEN Some("Total coconuts must be a positive integer")
    ELSE IF DecLeqZero(input.price_each_rupees)
    THEN Some("Price per coconut must be a positive number")
    ELSE IF input.invoice_no = <<>>
    THEN Some("V.No. (invoice number) must be a non-empty string")
    ELSE IF input.client_no < 0
    THEN Some("Client number must be >= 0")
    ELSE None

\* (a variant that takes 220% of the nuts)
round_waste_at_220_percent(nuts) ==
    LET waste_quantized == Quantize(DecMul(DecFromInt(nuts), Dec(0, 22, -1)), 0)
    IN  IF waste_quantized = None THEN None ELSE Some(DecToInt(waste_quantized[1]))

\* 2.2% of the nuts as an integer, <<>> when quantize signals
round_waste_to_nearest_integer_half_even(nuts) ==
    LET waste_raw == DecMul(DecFromInt(nuts), Dec(0, 22, -3))
        waste_quantized == Quantize(waste_raw, 0)
    IN  IF waste_quantized = None THEN None ELSE Some(DecToInt(waste_quantized[1]))

quantize_money(value) == Quantize(value, -2)

\* the value rounded to 2 decimals: itself when it has no more than two (it
\* is then numerically its own quantization) or when quantize_money signals
QuantizedOr(value) ==
    IF value.e >= -2 \/ quantize_money(value) = None
    THEN value
    ELSE quantize_money(value)[1]

\* (a variant that multiplies by the 2-decimal price echoed in the result)
gross_raw_of_echoed_price(remaining_nuts, input) ==
    DecMul(DecFromInt(remaining_nuts), QuantizedOr(input.price_each_rupees))

\* line 94: gross_amount before it is quantized
gross_raw(remaining_nuts, input) ==
    DecMul(DecFromInt(remaining_nuts), input.price_each_rupees)

\* (a variant that takes 1% of the gross already quantized)
tax_raw_of_quantized_gross(gross_amount) ==
    DecMul(QuantizedOr(gross_amount), Dec(0, 1, -2))

\* line 95: tax_amount before it is quantized
tax_raw(gross_amount) == DecMul(gross_amount, Dec(0, 1, -2))

\* (a variant that charges labor on the remaining nuts)
labor_raw_on_remaining(input, remaining_nuts) ==
    DecMul(DecFromInt(remaining_nuts), DecDivHundred(input.labor_percent))

\* line 96: labor_charges before it is quantized; remaining_nuts is in scope
\* and not used
labor_raw(input, remaining_nuts) ==
    DecMul(DecFromInt(input.total_nuts), DecDivHundred(input.labor_percent))

\* (a variant that subtracts the amounts after quantizing each)
final_raw_of_quantized(gross_amount, tax_amount, labor_charges) ==
    DecSub(DecSub(QuantizedOr(gross_amount), QuantizedOr(tax_amount)),
           QuantizedOr(labor_charges))

\* (a variant with the operands the other way round)
final_raw_reversed(gross_amount, tax_amount, labor_charges) ==
    DecSub(DecAdd(tax_amount, labor_charges), gross_amount)

\* line 99: final_amount before it is quantized
final_raw(gross_amount, tax_amount, labor_charges) ==
    DecSub(DecSub(gross_amount, tax_amount), labor_charges)

Raised(exc, computed) == [exc |-> exc, computed |-> computed, result |-> None]

NutsLocals == {"waste_nuts", "remaining_nuts"}
MoneyLocals == {"gross_amount", "tax_amount", "labor_charges", "final_amount"}

\* What one call does: the exception it raises (exc, "" for none), the locals
\* it had assigned by then (computed) and the CalculationResult it returns.
calculate(input) ==
    IF ValidationError(input) # None THEN Raised("ValueError", {})
    ELSE
    LET waste == round_waste_to_nearest_integer_half_even(input.total_nuts)
    IN
    IF waste = None THEN Raised("InvalidOperation", {})
    ELSE
    LET waste_nuts == waste[1]
        remaining_nuts == input.total_nuts - waste_nuts
        gross_amount == gross_raw(remaining_nuts, input)
        tax_amount == tax_raw(gross_amount)
        labor_charges == labor_raw(input, remaining_nuts)
        final_amount == final_raw(gross_amount, tax_amount, labor_charges)
        gross_q == quantize_money(gross_amount)
        tax_q == quantize_money(tax_amount)
        labor_q == quantize_money(labor_charges)
        final_q == quantize_money(final_amount)
        price_q == quantize_money(input.price_each_rupees)
    IN
    IF gross_q = None \/ tax_q = None \/ labor_q = None
    THEN Raised("InvalidOperation", NutsLocals \cup MoneyLocals)
    ELSE IF final_q = None \/ price_q = None
    THEN Raised("InvalidOperation", NutsLocals \cup MoneyLocals)
    ELSE [exc |-> "",
          computed |-> NutsLocals \cup MoneyLocals,
          result |-> Some([invoice_no |-> input.invoice_no,
                           client_no |-> input.client_no,
                           client_name |-> input.client_name,
                           date |-> input.date,
                           total_nuts |-> input.total_nuts,
                           price_each_rupees |-> price_q[1],
                           labor_percent |-> input.labor_percent,
                           waste_nuts |-> waste_nuts,
                           remaining_nuts |-> remaining_nuts,
                           gross_amount |-> gross_q[1],
                           tax_amount |-> tax_q[1],
                           labor_charges |-> labor_q[1],
                           final_amount |-> final_q[1]])]

(***************************************************************************)
(* Text, as Python's str methods and format specs produce and compare it.  *)
(***************************************************************************)
Whitespace == {" ", "\t", "\n"}

\* str.strip(): leading, then trailing whitespace removed
RECURSIVE LStrip(_)
LStrip(t) == IF t # <<>> /\ Head(t) \in Whitespace THEN LStrip(Tail(t)) ELSE t

RECURSIVE RStrip(_)
RStrip(t) ==
    IF t # <<>> /\ t[Len(t)] \in Whitespace
    THEN RStrip(SubSeq(t, 1, Len(t) - 1))
    ELSE t

Strip(t) == RStrip(LStrip(t))

\* str.lower(), on the letters the model uses
LowerChar(ch) ==
    CASE ch = "A" -> "a"
      [] ch = "B" -> "b"
      [] ch = "C" -> "c"
      [] OTHER -> ch

Lower(t) == [i \in 1 .. Len(t) |-> LowerChar(t[i])]

Digits == <<"0", "1", "2", "3", "4", "5", "6", "7", "8", "9">>

\* str(n) for an int n
RECURSIVE NatToText(_)
NatToText(n) ==
    IF n < 10 THEN <<Digits[n + 1]>>
    ELSE NatToText(n \div 10) \o <<Digits[(n % 10) + 1]>>

IntToText(n) == IF n < 0 THEN <<"-">> \o NatToText(0 - n) ELSE NatToText(n)

\* n in decimal, zero-padded to two digits (%m, %d, the paise of an amount)
TwoDigits(n) == <<Digits[(n \div 10) + 1], Digits[(n % 10) + 1]>>

\* f"{value:.2f}" for a Decimal: rounded half-even to 2 places, the sign kept
\* (so Decimal("-0.00") gives "-0.00")
Format2f(value) ==
    LET q == Quantize(value, -2)[1]
    IN  (IF q.s = 1 THEN <<"-">> ELSE <<>>)
            \o NatToText(q.c \div 100) \o <<".">> \o TwoDigits(q.c % 100)

\* date.strftime("%Y-%m-%d")
format_date_for_csv(date_value) ==
    NatToText(date_value.year) \o <<"-">> \o TwoDigits(date_value.month)
        \o <<"-">> \o TwoDigits(date_value.day)

IsDigit(ch) == \E d \in 1 .. 10 : Digits[d] = ch
DigitValue(ch) == CHOOSE d \in 0 .. 9 : Digits[d + 1] = ch
AllDigits(t) == \A i \in 1 .. Len(t) : IsDigit(t[i])

\* the number a run of decimal digits writes
RECURSIVE TextToNat(_)
TextToNat(t) ==
    IF t = <<>> THEN 0
    ELSE TextToNat(SubSeq(t, 1, Len(t) - 1)) * 10 + DigitValue(t[Len(t)])

\* a text without its sign, and whether the sign was a minus
Unsigned(t) == IF t # <<>> /\ Head(t) \in {"+", "-"} THEN Tail(t) ELSE t
IsMinus(t) == t # <<>> /\ Head(t) = "-"

\* int(text): surrounding whitespace and a sign are allowed, then decimal
\* digits only; None stands for ValueError
int_of_text(t) ==
    LET body == Unsigned(Strip(t))
    IN  IF body = <<>> \/ ~AllDigits(body) THEN None
        ELSE Some(IF IsMinus(Strip(t)) THEN 0 - TextToNat(body) ELSE TextToNat(body))

\* float(text) for a plain decimal numeral (sign, digits, at most one point):
\* the value, kept exact as sign, coefficient and exponent; None stands for
\* ValueError.  The amounts of the model have at most two decimals and few
\* digits, so the binary float is within a fraction of a paisa of this
\* value and int() and round() below give what they give in Python.
float_of_text(t) ==
    LET body == Unsigned(Strip(t))
        dots == {i \in 1 .. Len(body) : body[i] = "."}
        dot == IF dots = {} THEN Len(body) + 1 ELSE CHOOSE i \in dots : TRUE
        whole == SubSeq(body, 1, dot - 1)
        frac == SubSeq(body, dot + 1, Len(body))
    IN  IF Cardinality(dots) > 1 \/ ~AllDigits(whole) \/ ~AllDigits(frac)
           \/ whole \o frac = <<>>
        THEN None
        ELSE Some([s |-> IF IsMinus(Strip(t)) THEN 1 ELSE 0,
                   c |-> TextToNat(whole \o frac),
                   e |-> 0 - Len(frac)])

(***************************************************************************)
(* persistence.py: the history ledger.  ledger holds the data rows of      *)
(* history.csv in file order, each a record from column name to text, as   *)
(* csv.DictReader returns them; ensure_files_exist has written the header  *)
(* with all fourteen columns.  A csv round trip gives back the text that   *)
(* was written.                                                            *)
(***************************************************************************)

\* the row append_history writes for a result; created_at is the second of
\* the clock, as text
history_row(result, party_name, clock) ==
    [date |-> format_date_for_csv(result.date),
     v_no |-> result.invoice_no,
     client_no |-> IntToText(result.client_no),
     client_name |-> result.client_name,
     total_nuts |-> IntToText(result.total_nuts),
     waste |-> IntToText(result.waste_nuts),
     remaining |-> IntToText(result.remaining_nuts),
     price_each |-> Format2f(result.price_each_rupees),
     gross |-> Format2f(result.gross_amount),
     tax |-> Format2f(result.tax_amount),
     labor |-> Format2f(result.labor_charges),
     final_amount |-> Format2f(result.final_amount),
     created_at |-> NatToText(clock),
     party_name |-> party_name]

\* the file after append_history(result, party_name)
append_history(rows, result, party_name, clock) ==
    Append(rows, history_row(result, party_name, clock))

\* r.get(column): the text, or nothing when the row has no such column
RowGet(r, column) == IF column \in DOMAIN r THEN r[column] ELSE <<>>

\* a or b or "": the first that is not empty
FirstOf(a, b) == IF a # <<>> THEN a ELSE b

\* (a variant of the key that compares the name as written)
dedup_key_case_sensitive(r) ==
    <<Strip(FirstOf(RowGet(r, "client_name"), RowGet(r, "Name"))),
      Strip(FirstOf(RowGet(r, "v_no"), RowGet(r, "V.No."))),
      Strip(FirstOf(RowGet(r, "final_amount"), RowGet(r, "Amount")))>>

\* (a variant of the key that compares the amount by its value)
dedup_key_numeric_amount(r) ==
    <<Lower(Strip(FirstOf(RowGet(r, "client_name"), RowGet(r, "Name")))),
      Strip(FirstOf(RowGet(r, "v_no"), RowGet(r, "V.No."))),
      LET amt == float_of_text(FirstOf(RowGet(r, "final_amount"), RowGet(r, "Amount")))
      IN  IF amt = None THEN <<>> ELSE <<Signed(amt[1]) * Pow10(3 + amt[1].e)>>>>

\* the key (name, vno, amt) of deduplicate_history
dedup_key(r) ==
    <<Lower(Strip(FirstOf(RowGet(r, "client_name"), RowGet(r, "Name")))),
      Strip(FirstOf(RowGet(r, "v_no"), RowGet(r, "V.No."))),
      Strip(FirstOf(RowGet(r, "final_amount"), RowGet(r, "Amount")))>>

\* the loop of deduplicate_history over rows[i..]: unique_rows and removed
RECURSIVE dedup_loop(_, _, _, _, _)
dedup_loop(rows, i, seen_keys, unique_rows, count) ==
    IF i > Len(rows) THEN [unique_rows |-> unique_rows, removed |-> count]
    ELSE IF dedup_key(rows[i]) \in seen_keys
    THEN dedup_loop(rows, i + 1, seen_keys, unique_rows, count + 1)
    ELSE dedup_loop(rows, i + 1, seen_keys \cup {dedup_key(rows[i])},
                    Append(unique_rows, rows[i]), count)

\* deduplicate_history on a file holding rows: the rows it leaves in the
\* file and the count it returns; an empty file is left alone
deduplicate_history(rows) ==
    IF rows = <<>> THEN [unique_rows |-> rows, removed |-> 0]
    ELSE dedup_loop(rows, 1, {}, <<>>, 0)

(***************************************************************************)
(* persistence.py on the file itself.  history.csv is a header (the column *)
(* names of its first line) and the lines after it, each a sequence of     *)
(* cells; a file of no bytes has neither.                                  *)
(***************************************************************************)
fieldnames ==
    <<"date", "v_no", "client_no", "client_name", "total_nuts", "waste",
      "remaining", "price_each", "gross", "tax", "labor", "final_amount",
      "created_at", "party_name">>

CsvFile(header, rows) == [header |-> header, rows |-> rows]

Names(header) == {header[i] : i \in 1 .. Len(header)}

\* ensure_files_exist: a missing history.csv is made with the header alone
ensure_files_exist(file) ==
    IF file = None THEN CsvFile(fieldnames, <<>>) ELSE file[1]

\* (a variant that puts the new empty cell in front of each row)
ensure_history_has_party_column_in_front(file) ==
    IF "party_name" \in Names(file.header) THEN file
    ELSE CsvFile(Append(file.header, "party_name"),
                 [i \in 1 .. Len(file.rows) |-> <<<<>>>> \o file.rows[i]])

\* _ensure_history_has_party_column: a header without party_name gets it
\* as its last column and every row an empty last cell
ensure_history_has_party_column(file) ==
    IF "party_name" \in Names(file.header) THEN file
    ELSE CsvFile(Append(file.header, "party_name"),
                 [i \in 1 .. Len(file.rows) |-> Append(file.rows[i], <<>>)])

\* f.tell() == 0 on the file opened for appending
AtStart(file) == file.header = <<>> /\ file.rows = <<>>

\* writer.writerow(row): the cells in the order of fieldnames
RowCells(row) == [i \in 1 .. Len(fieldnames) |-> row[fieldnames[i]]]

\* append_history on the file: lines 121-122, then the append of 158-162
append_history_csv(file, result, party_name, clock) ==
    LET ensured == ensure_history_has_party_column(ensure_files_exist(file))
        headed == IF AtStart(ensured) THEN CsvFile(fieldnames, <<>>) ELSE ensured
    IN  Some(CsvFile(headed.header,
                     Append(headed.rows,
                            RowCells(history_row(result, party_name, clock)))))

\* the key csv.DictReader files surplus cells under (restkey, None)
restkey == "None"

\* one row as csv.DictReader gives it: the cells under the header's names,
\* surplus cells as a list under restkey, a missing cell as nothing
DictRow(header, cells) ==
    [name \in Names(header) \cup (IF Len(cells) > Len(header) THEN {restkey} ELSE {}) |->
        IF name \in Names(header)
        THEN LET i == CHOOSE k \in 1 .. Len(header) : header[k] = name
             IN  IF i <= Len(cells) THEN cells[i] ELSE <<>>
        ELSE SubSeq(cells, Len(header) + 1, Len(cells))]

\* read_history_rows: the records of the file
read_history_rows(file) ==
    LET present == ensure_files_exist(file)
        NotBlank(cells) == cells # <<>>
        lines == SelectSeq(present.rows, NotBlank)
    IN  [i \in 1 .. Len(lines) |-> DictRow(present.header, lines[i])]

(***************************************************************************)
(* webapp.py: the voucher-range report.                                    *)
(***************************************************************************)
\* (a variant of the page that shows an empty table)
EmptyTable == <<>>

NoVouchersFound ==
    <<"N", "o", " ", "v", "o", "u", "c", "h", "e", "r", "s", " ",
      "f", "o", "u", "n", "d", " ", "i", "n", " ", "t", "h", "i", "s", " ",
      "r", "a", "n", "g", "e">>

\* _format_indian_number: the digits of abs(n), the last three as one
\* group and the ones before them in groups of two
RECURSIVE indian_groups(_)
indian_groups(rest) ==
    IF Len(rest) > 2
    THEN indian_groups(SubSeq(rest, 1, Len(rest) - 2))
             \o SubSeq(rest, Len(rest) - 1, Len(rest)) \o <<",">>
    ELSE IF rest # <<>> THEN rest \o <<",">> ELSE <<>>

format_indian_number(n) ==
    LET digits == NatToText(Abs(n))
    IN  IF Len(digits) <= 3 THEN digits
        ELSE indian_groups(SubSeq(digits, 1, Len(digits) - 3))
                 \o SubSeq(digits, Len(digits) - 2, Len(digits))

\* f"{n:02d}": at least two characters, zero-filled after the sign
Format02d(n) ==
    IF n < 0 THEN <<"-">> \o NatToText(0 - n)
    ELSE IF n < 10 THEN <<"0">> \o NatToText(n)
    ELSE NatToText(n)

\* str.rjust(width) and str.ljust(width)
RECURSIVE Spaces(_)
Spaces(k) == IF k <= 0 THEN <<>> ELSE <<" ">> \o Spaces(k - 1)
\* (a variant of rjust that pads on the right)
rjust_padding_right(t, width) == t \o Spaces(width - Len(t))
rjust(t, width) == Spaces(width - Len(t)) \o t
ljust(t, width) == t \o Spaces(width - Len(t))

\* "\n".join(lines)
RECURSIVE JoinLines(_)
JoinLines(lines) ==
    IF lines = <<>> THEN <<>>
    ELSE IF Len(lines) = 1 THEN lines[1]
    ELSE lines[1] \o <<"\n">> \o JoinLines(Tail(lines))

\* int(amt) of a float: towards zero
int_of_float(amt) ==
    LET magnitude == IF amt.e >= 0 THEN amt.c * Pow10(amt.e)
                     ELSE amt.c \div Pow10(0 - amt.e)
    IN  IF amt.s = 1 THEN 0 - magnitude ELSE magnitude

\* int(round((amt - rupees) * 100)): round() goes to the nearest integer,
\* a tie to the even one
paise_of_float(amt, rupees) ==
    LET hundredths == IF amt.e >= -2 THEN amt.c * Pow10(amt.e + 2)
                      ELSE RoundHalfEvenDiv(amt.c, Pow10(0 - amt.e - 2))
        signed == IF amt.s = 1 THEN 0 - hundredths ELSE hundredths
    IN  signed - rupees * 100

\* the window of the request: int() of the two fields, swapped when a > b;
\* error holds the message when the handler stops before reading
range_window(from_no, to_no) ==
    IF from_no = <<>> \/ to_no = <<>>
    THEN [error |-> "Please enter both From and To voucher numbers", a |-> 0, b |-> 0]
    ELSE IF int_of_text(from_no) = None \/ int_of_text(to_no) = None
    THEN [error |-> "Voucher numbers must be integers", a |-> 0, b |-> 0]
    ELSE LET a == int_of_text(from_no)[1]
             b == int_of_text(to_no)[1]
         IN  IF a > b THEN [error |-> "", a |-> b, b |-> a]
             ELSE [error |-> "", a |-> a, b |-> b]

\* the loop over rows[i..]: (v_int, r) for each row whose voucher id is an
\* integer of the window
RECURSIVE range_filter(_, _, _, _)
range_filter(rows, i, a, b) ==
    IF i > Len(rows) THEN <<>>
    ELSE LET v == FirstOf(RowGet(rows[i], "v_no"), RowGet(rows[i], "V.No."))
             v_int == int_of_text(v)
         IN  IF v_int # None /\ a <= v_int[1] /\ v_int[1] <= b
             THEN <<[v_int |-> v_int[1], r |-> rows[i]]>>
                      \o range_filter(rows, i + 1, a, b)
             ELSE range_filter(rows, i + 1, a, b)

\* (a variant of the sort that puts a row before the rows of its voucher id)
RECURSIVE sort_by_vno_ties_reversed(_)
sort_by_vno_ties_reversed(filtered) ==
    IF filtered = <<>> THEN <<>>
    ELSE LET sorted == sort_by_vno_ties_reversed(SubSeq(filtered, 1, Len(filtered) - 1))
             t == filtered[Len(filtered)]
             before == Cardinality({k \in 1 .. Len(sorted) : sorted[k].v_int < t.v_int})
         IN  SubSeq(sorted, 1, before) \o <<t>> \o SubSeq(sorted, before + 1, Len(sorted))

\* list.sort(key=lambda t: t[0]): ascending, equal keys in their old order
RECURSIVE sort_by_vno(_)
sort_by_vno(filtered) ==
    IF filtered = <<>> THEN <<>>
    ELSE LET sorted == sort_by_vno(SubSeq(filtered, 1, Len(filtered) - 1))
             t == filtered[Len(filtered)]
             before == Cardinality({k \in 1 .. Len(sorted) : sorted[k].v_int <= t.v_int})
         IN  SubSeq(sorted, 1, before) \o <<t>> \o SubSeq(sorted, before + 1, Len(sorted))

\* the text of the amount of one row
range_amount_text(r) ==
    LET amount == FirstOf(FirstOf(RowGet(r, "final_amount"), RowGet(r, "Amount")), <<"0">>)
        parsed == float_of_text(amount)
        amt == IF parsed = None THEN Dec(0, 0, 0) ELSE parsed[1]
        rupees == int_of_float(amt)
        paise == paise_of_float(amt, rupees)
    IN  format_indian_number(rupees)
            \o (IF paise # 0 THEN <<".">> \o Format02d(paise) ELSE <<>>)

\* the label of one row
range_label(vnum, r) ==
    Strip(FirstOf(RowGet(r, "client_name"), RowGet(r, "Name")))
        \o <<" ", "(">> \o IntToText(vnum) \o <<")">>

\* (label, amt_text) for each filtered row
range_entries(filtered) ==
    [k \in 1 .. Len(filtered) |->
        [label |-> range_label(filtered[k].v_int, filtered[k].r),
         amt_text |-> range_amount_text(filtered[k].r)]]

MaxOf(numbers) == CHOOSE m \in numbers : \A k \in numbers : k <= m

\* the aligned lines
range_lines(entries) ==
    LET name_width == MaxOf({Len(entries[k].label) : k \in 1 .. Len(entries)})
        amt_width == MaxOf({Len(entries[k].amt_text) : k \in 1 .. Len(entries)})
        idx_width == Len(NatToText(Len(entries)))
    IN  [i \in 1 .. Len(entries) |->
            rjust(NatToText(i), idx_width) \o <<".", " ">>
                \o ljust(entries[i].label, name_width)
                \o <<" ", " ", "=", " ", " ">>
                \o rjust(entries[i].amt_text, amt_width)]

\* voucher_range on a file holding rows: what the handler computed and the
\* page shows (report_text is None on an error page), and whether it went
\* on to deduplicate_history
voucher_range(rows, from_no, to_no) ==
    LET window == range_window(from_no, to_no)
        filtered == sort_by_vno(range_filter(rows, 1, window.a, window.b))
        entries == range_entries(filtered)
    IN  IF window.error # ""
        THEN [error |-> window.error, a |-> 0, b |-> 0, filtered |-> <<>>,
              entries |-> <<>>, report_text |-> None, deduplicated |-> FALSE]
        ELSE IF filtered = <<>>
        THEN [error |-> "", a |-> window.a, b |-> window.b, filtered |-> <<>>,
              entries |-> <<>>, report_text |-> Some(NoVouchersFound),
              deduplicated |-> FALSE]
        ELSE [error |-> "", a |-> window.a, b |-> window.b, filtered |-> filtered,
              entries |-> entries,
              report_text |-> Some(JoinLines(range_lines(entries))),
              deduplicated |-> TRUE]

(***************************************************************************)
(* persistence.py: the saved artifacts.  A directory is a function from    *)
(* file name to content; Path.exists() is membership in its domain and     *)
(* Path.write_text() sets the content at the name.                         *)
(***************************************************************************)
Letters == {"A", "B", "C", "P", "Q", "a", "b", "c"}
IsAlnum(ch) == ch \in Letters \/ IsDigit(ch)

\* str.split(): the runs of characters that are not whitespace
RECURSIVE SplitWords(_)
SplitWords(t) ==
    LET u == LStrip(t)
        blanks == {i \in 1 .. Len(u) : u[i] \in Whitespace}
        stop == IF blanks = {} THEN Len(u) + 1
                ELSE CHOOSE i \in blanks : \A j \in blanks : i <= j
    IN  IF u = <<>> THEN <<>>
        ELSE <<SubSeq(u, 1, stop - 1)>> \o SplitWords(SubSeq(u, stop, Len(u)))

\* t[:k]
Prefix(t, k) == SubSeq(t, 1, IF k < Len(t) THEN k ELSE Len(t))

shorten_client_name(name) ==
    LET parts == SplitWords(name)
    IN  IF parts = <<>> THEN <<"C", "l", "i", "e", "n", "t">>
        ELSE IF Len(parts) = 1 THEN Prefix(parts[1], 16)
        ELSE Prefix(parts[1] \o parts[Len(parts)], 24)

\* str.replace(" ", "")
WithoutSpaces(t) == LET NotSpace(ch) == ch # " " IN SelectSeq(t, NotSpace)

\* date.strftime("%Y%m%d")
strftime_Ymd(date_value) ==
    NatToText(date_value.year) \o TwoDigits(date_value.month)
        \o TwoDigits(date_value.day)

slip_filename(result) ==
    <<"V", "N", "o">> \o result.invoice_no \o <<"_">> \o strftime_Ymd(result.date)
        \o <<"_">> \o WithoutSpaces(shorten_client_name(result.client_name))
        \o <<".", "t", "x", "t">>

\* save_slip_text: the directory afterwards and the path returned
save_slip_text(files, result, content) ==
    [files |-> (slip_filename(result) :> content) @@ files,
     path |-> slip_filename(result)]

\* (a variant of save_slip_text_if_new that writes over an existing file)
save_slip_text_if_new_overwriting(files, result, content) ==
    [files |-> (slip_filename(result) :> content) @@ files,
     path |-> slip_filename(result),
     created |-> slip_filename(result) \notin DOMAIN files]

\* save_slip_text_if_new: the directory afterwards and (path, was_created)
save_slip_text_if_new(files, result, content) ==
    IF slip_filename(result) \in DOMAIN files
    THEN [files |-> files, path |-> slip_filename(result), created |-> FALSE]
    ELSE [files |-> (slip_filename(result) :> content) @@ files,
          path |-> slip_filename(result),
          created |-> TRUE]

\* one pass of str.replace("__", "_"), left to right
RECURSIVE replace_double_underscore(_)
replace_double_underscore(t) ==
    IF Len(t) < 2 THEN t
    ELSE IF t[1] = "_" /\ t[2] = "_"
    THEN <<"_">> \o replace_double_underscore(SubSeq(t, 3, Len(t)))
    ELSE <<t[1]>> \o replace_double_underscore(Tail(t))

\* while "__" in safe: safe = safe.replace("__", "_")
RECURSIVE collapse_underscores(_)
collapse_underscores(t) ==
    IF \E i \in 1 .. Len(t) - 1 : t[i] = "_" /\ t[i + 1] = "_"
    THEN collapse_underscores(replace_double_underscore(t))
    ELSE t

\* str.strip("._")
RECURSIVE strip_dots_underscores(_)
strip_dots_underscores(t) ==
    IF t # <<>> /\ Head(t) \in {".", "_"} THEN strip_dots_underscores(Tail(t))
    ELSE IF t # <<>> /\ t[Len(t)] \in {".", "_"}
    THEN strip_dots_underscores(SubSeq(t, 1, Len(t) - 1))
    ELSE t

sanitize_filename_component(text) ==
    LET stripped == Strip(text)
        safe == [i \in 1 .. Len(stripped) |->
                    IF IsAlnum(stripped[i]) \/ stripped[i] \in {"-", "_"}
                    THEN stripped[i] ELSE "_"]
        slug == strip_dots_underscores(collapse_underscores(safe))
    IN  IF slug = <<>> THEN <<"N", "A">> ELSE slug

range_report_path(party_name, from_vno, to_vno, on_date) ==
    strftime_Ymd(on_date) \o <<"_", "V">> \o IntToText(from_vno) \o <<"-">>
        \o IntToText(to_vno) \o <<"_">> \o sanitize_filename_component(party_name)
        \o <<".", "t", "x", "t">>

\* the content save_range_report_if_new writes: the three header lines, an
\* empty line and the report text
range_report_content(party_name, from_vno, to_vno, report_text, clock) ==
    <<"P", "a", "r", "t", "y", ":", " ">> \o party_name \o <<"\n">>
        \o <<"R", "a", "n", "g", "e", ":", " ">> \o IntToText(from_vno)
        \o <<".", ".">> \o IntToText(to_vno) \o <<"\n">>
        \o <<"S", "a", "v", "e", "d", " ", "A", "t", " ", "(", "U", "T", "C", ")", ":", " ">>
        \o NatToText(clock) \o <<"\n", "\n">> \o report_text

\* (a variant of save_range_report_if_new that writes over an existing file)
save_range_report_if_new_overwriting(files, party_name, from_vno, to_vno, report_text, on_date, clock) ==
    LET path == range_report_path(party_name, from_vno, to_vno, on_date)
    IN  [files |-> (path :> range_report_content(party_name, from_vno, to_vno,
                                                  report_text, clock)) @@ files,
         path |-> path,
         created |-> path \notin DOMAIN files]

\* save_range_report_if_new: the directory afterwards and (path, created)
save_range_report_if_new(files, party_name, from_vno, to_vno, report_text, on_date, clock) ==
    LET path == range_report_path(party_name, from_vno, to_vno, on_date)
    IN  IF path \in DOMAIN files
        THEN [files |-> files, path |-> path, created |-> FALSE]
        ELSE [files |-> (path :> range_report_content(party_name, from_vno, to_vno,
                                                       report_text, clock)) @@ files,
              path |-> path,
              created |-> TRUE]

(***************************************************************************)
(* cli.py: the slip text.  render_slip is kept as the lines that show a    *)
(* value of the result; the title, the rules and the signature block are   *)
(* the same on every slip and the padding adds blanks only.                *)
(***************************************************************************)
\* the digits of a number in groups of three
RECURSIVE western_groups(_)
western_groups(digits) ==
    IF Len(digits) <= 3 THEN digits
    ELSE western_groups(SubSeq(digits, 1, Len(digits) - 3)) \o <<",">>
             \o SubSeq(digits, Len(digits) - 2, Len(digits))

\* f"{value:,.2f}"
format_currency(value) ==
    LET q == Quantize(value, -2)[1]
    IN  (IF q.s = 1 THEN <<"-">> ELSE <<>>)
            \o western_groups(NatToText(q.c \div 100)) \o <<".">>
            \o TwoDigits(q.c % 100)

MonthAbbr ==
    <<<<"J", "a", "n">>, <<"F", "e", "b">>, <<"M", "a", "r">>, <<"A", "p", "r">>,
      <<"M", "a", "y">>, <<"J", "u", "n">>, <<"J", "u", "l">>, <<"A", "u", "g">>,
      <<"S", "e", "p">>, <<"O", "c", "t">>, <<"N", "o", "v">>, <<"D", "e", "c">>>>

\* date.strftime("%d-%b-%Y")
format_date_for_slip(date_value) ==
    TwoDigits(date_value.day) \o <<"-">> \o MonthAbbr[date_value.month]
        \o <<"-">> \o NatToText(date_value.year)

render_slip(result) ==
    <<format_date_for_slip(result.date),
      <<"V", ".", "N", "o", ".", ":", " ">> \o result.invoice_no,
      <<"N", "a", "m", "e", ":", " ">> \o result.client_name,
      IntToText(result.total_nuts),
      IntToText(result.waste_nuts),
      IntToText(result.remaining_nuts),
      format_currency(result.price_each_rupees),
      format_currency(result.gross_amount),
      format_currency(result.tax_amount),
      format_currency(result.labor_charges),
      format_currency(result.final_amount)>>

(***************************************************************************)
(* The inputs calculate is applied to.                                     *)
(***************************************************************************)
NutsSet == (-1 .. MaxNuts) \cup {23, 250, 750, 5670}
PriceCoeffs == (0 .. MaxPriceCoeff) \cup {22, 49, 50, 101}
PriceSet ==
    {Dec(0, c, e) : c \in PriceCoeffs, e \in {-3, -2, 0}}
        \cup {Dec(1, 1, 0), Dec(0, 1, 26)}
LaborSet == {None, Some(Dec(0, 125, -1)), Some(Dec(0, 1, 28))}
InvoiceSet == {<<>>, <<"1">>}
ClientNoSet == {-1, 0, 1}
SlipDate == [year |-> 2025, month |-> 8, day |-> 10]

InitCalc ==
    /\ input_data = None
    /\ outcome = None
    /\ labor_given = FALSE

InitLedger ==
    /\ ledger = <<>>
    /\ now = 0
    /\ last_op = "none"
    /\ pre_rows = <<>>
    /\ removed = 0

InitReport == range_out = None

\* ensure_files_exist has made the two directories, and nothing is in them
InitArtifacts ==
    /\ slips = <<>>
    /\ range_reports = <<>>
    /\ save_out = None
    /\ first_saved = <<>>

InitRace ==
    /\ dedup_pc = "idle"
    /\ dedup_rows = <<>>
    /\ appended = None

\* no history.csv yet
InitFile ==
    /\ history_csv = None
    /\ file_out = None

InitFront == run_out = None

InitOthers == InitReport /\ InitArtifacts /\ InitRace /\ InitFile /\ InitFront

Init == InitCalc /\ InitLedger /\ InitOthers

\* a caller builds a CalculationInput and calls calculate
Calculate ==
    /\ outcome = None
    /\ \E inv \in InvoiceSet, cno \in ClientNoSet, n \in NutsSet,
          p \in PriceSet, l \in LaborSet :
           LET input == CalculationInput(inv, cno, <<"A">>, n, p, SlipDate, l)
           IN  /\ input_data' = Some(input)
               /\ labor_given' = (l # None)
               /\ outcome' = Some(calculate(input))
    /\ UNCHANGED <<front_vars, file_vars, ledger_vars, report_vars, artifact_vars, race_vars>>

\* the caller is done with the result (or the exception) of the call
Discard ==
    /\ outcome # None
    /\ input_data' = None
    /\ labor_given' = FALSE
    /\ outcome' = None
    /\ UNCHANGED <<front_vars, file_vars, ledger_vars, report_vars, artifact_vars, race_vars>>

NextCalc == Calculate \/ Discard

CalcSpec == Init /\ [][NextCalc]_vars

(***************************************************************************)
(* The ledger operations and the results they are applied to.              *)
(***************************************************************************)
\* the slips whose results reach the ledger: two spellings of one client
\* and of one voucher id, two prices with one final amount (0.38), one
\* with another (-0.00) and one with a third (0.00)
LedgerInputs ==
    {CalculationInput(<<"7">>, 0, <<"A", "b">>, 1, Dec(0, 49, -2), SlipDate, None),
     CalculationInput(<<" ", "7">>, 0, <<"a", "b">>, 1, Dec(0, 50, -2), SlipDate, None),
     CalculationInput(<<"8">>, 0, <<"A", "b">>, 1, Dec(0, 49, -2), SlipDate, None),
     CalculationInput(<<"7">>, 0, <<"a", "b">>, 1, Dec(0, 11, -2), SlipDate, None),
     CalculationInput(<<"7">>, 0, <<"a", "b">>, 1, Dec(0, 112, -3), SlipDate, None)}

LedgerResults == {calculate(input).result[1] : input \in LedgerInputs}

PartySet == {<<>>}

\* a front-end appends the result of a calculation; the clock may have moved
AppendHistory ==
    /\ Len(ledger) < MaxRows
    /\ \E result \in LedgerResults, party_name \in PartySet,
          clock \in now .. (IF now < MaxClock THEN now + 1 ELSE now) :
           /\ ledger' = append_history(ledger, result, party_name, clock)
           /\ now' = clock
    /\ last_op' = "append"
    /\ pre_rows' = <<>>
    /\ removed' = 0
    /\ UNCHANGED <<front_vars, file_vars, calc_vars, report_vars, artifact_vars, race_vars>>

\* a front-end runs deduplicate_history
DeduplicateHistory ==
    /\ pre_rows' = ledger
    /\ ledger' = deduplicate_history(ledger).unique_rows
    /\ removed' = deduplicate_history(ledger).removed
    /\ last_op' = "dedup"
    /\ UNCHANGED <<front_vars, file_vars, now, calc_vars, report_vars, artifact_vars, race_vars>>

Next == AppendHistory \/ DeduplicateHistory

\* a ledger that starts empty: every record in it was written by
\* append_history
AppendedSpec == Init /\ [][Next]_vars

\* history.csv as a front-end can find it when it starts: not there yet
\* (ensure_files_exist then writes the header alone), or kept from earlier
\* use with amounts as a spreadsheet or an earlier tool wrote them
StoredRow(v_no, client_name, final_amount) ==
    [date |-> format_date_for_csv(SlipDate),
     v_no |-> v_no,
     client_no |-> <<"0">>,
     client_name |-> client_name,
     total_nuts |-> <<"1">>,
     waste |-> <<"0">>,
     remaining |-> <<"1">>,
     price_each |-> final_amount,
     gross |-> final_amount,
     tax |-> <<"0">>,
     labor |-> <<"0">>,
     final_amount |-> final_amount,
     created_at |-> <<"0">>,
     party_name |-> <<>>]

StoredLedgers ==
    {<<>>,
     <<StoredRow(<<"7">>, <<"A", "b">>, <<"1", "0", "0", ".", "0">>),
       StoredRow(<<"7">>, <<"a", "b">>, <<"1", "0", "0", ".", "0", "0">>)>>}

InitStored ==
    /\ InitCalc
    /\ InitOthers
    /\ ledger \in StoredLedgers
    /\ now = 0
    /\ last_op = "none"
    /\ pre_rows = <<>>
    /\ removed = 0

Spec == InitStored /\ [][Next]_vars

(***************************************************************************)
(* The voucher-range page over a book of slips.                            *)
(***************************************************************************)
Slip(v_no, client_name, total_nuts, price) ==
    CalculationInput(v_no, 0, client_name, total_nuts, price, SlipDate, None)

\* the slips of the book, in the order they were entered: voucher ids out
\* of order, one that is no number, one with a blank before it, one slip
\* entered twice, two slips under one id, and final amounts of every shape
\* (120146.40, -0.06, 1543652.00, -0.00, 0.38, 9691.00, 86.02, 0.01)
BookSlips ==
    <<Slip(<<"5">>, <<"A", "b">>, 5670, Dec(0, 22, 0)),
      Slip(<<"3">>, <<"C">>, 5, Dec(0, 10, -2)),
      Slip(<<"9">>, <<"A", "b">>, 50000, Dec(0, 32, 0)),
      Slip(<<"1">>, <<"A">>, 1, Dec(0, 11, -2)),
      Slip(<<"A", "1">>, <<"B">>, 1, Dec(0, 49, -2)),
      Slip(<<" ", "7">>, <<"a", "b">>, 100, Dec(0, 100, 0)),
      Slip(<<"5">>, <<"a", "b">>, 5670, Dec(0, 22, 0)),
      Slip(<<"3">>, <<"A", "b">>, 1, Dec(0, 49, -2)),
      Slip(<<"1", "0">>, <<"A">>, 100, Dec(0, 1, 0)),
      Slip(<<"2">>, <<"B">>, 1, Dec(0, 12, -2)),
      Slip(<<"4">>, <<"C", "a", "b">>, 1, Dec(0, 49, -2)),
      Slip(<<"6">>, <<"B">>, 100, Dec(0, 1, 0)),
      Slip(<<"8">>, <<"A">>, 1, Dec(0, 12, -2))>>

\* history.csv after append_history has stored the first k slips
Book(k) ==
    [i \in 1 .. k |-> history_row(calculate(BookSlips[i]).result[1], <<>>, 0)]

\* the files the page is asked about: the book at each length, and a file
\* whose only row has a voucher id that is no number
BookLedgers ==
    {Book(k) : k \in 0 .. Len(BookSlips)} \cup {SubSeq(Book(5), 5, 5)}

\* the voucher numbers typed into the From and To fields
RangeNos == {-1, 2, 6, MaxVoucher}
RangeFields == {<<>>, <<"x">>} \cup {IntToText(v) : v \in RangeNos}

InitBook ==
    /\ InitCalc
    /\ InitOthers
    /\ ledger \in BookLedgers
    /\ now = 0
    /\ last_op = "none"
    /\ pre_rows = <<>>
    /\ removed = 0

\* a POST to /voucher-range: the report is built from the rows read, and
\* a request that shows lines ends with deduplicate_history
VoucherRange ==
    /\ \E from_no \in RangeFields, to_no \in RangeFields :
           LET out == voucher_range(ledger, from_no, to_no)
           IN  /\ range_out' = Some([from_no |-> from_no, to_no |-> to_no] @@ out)
               /\ ledger' = IF out.deduplicated
                             THEN deduplicate_history(ledger).unique_rows
                             ELSE ledger
    /\ pre_rows' = ledger
    /\ last_op' = "range"
    /\ UNCHANGED <<front_vars, file_vars, now, removed, calc_vars, artifact_vars, race_vars>>

NextReport == VoucherRange

ReportSpec == InitBook /\ [][NextReport]_vars

(***************************************************************************)
(* Saving slips: the web handler /slip-save and the desktop form's Save    *)
(* Slip button.                                                            *)
(***************************************************************************)
\* clients.json: client number -> name
Clients == <<<<"A", " ", "B">>, <<"A", "B">>>>

OtherDate == [year |-> 2025, month |-> 8, day |-> 11]
SlipDates == {SlipDate, OtherDate}
UnitPrice == Dec(0, 49, -2)

\* the JSON payloads posted to /slip-save: voucher 7 typed with and without
\* a blank, the client typed or picked by number, every count of nuts and
\* both dates; one slip of voucher 8; and three payloads that are refused
SlipPayloads ==
    [v_no : {<<"7">>, <<" ", "7">>},
     client_name : {<<"A", " ", "B">>},
     client_no : {0},
     total_nuts : 1 .. MaxSlipNuts,
     price_each : {UnitPrice},
     date : SlipDates]
    \cup
    [v_no : {<<"7">>, <<" ", "7">>},
     client_name : {<<>>},
     client_no : {2},
     total_nuts : 1 .. MaxSlipNuts,
     price_each : {UnitPrice},
     date : SlipDates]
    \cup
    {[v_no |-> <<"8">>, client_name |-> <<"A", " ", "B">>, client_no |-> 0,
      total_nuts |-> 1, price_each |-> UnitPrice, date |-> SlipDate],
     [v_no |-> <<" ">>, client_name |-> <<"A", " ", "B">>, client_no |-> 0,
      total_nuts |-> 1, price_each |-> UnitPrice, date |-> SlipDate],
     [v_no |-> <<"7">>, client_name |-> <<>>, client_no |-> 0,
      total_nuts |-> 1, price_each |-> UnitPrice, date |-> SlipDate],
     [v_no |-> <<"7">>, client_name |-> <<"A", " ", "B">>, client_no |-> 0,
      total_nuts |-> 0, price_each |-> UnitPrice, date |-> SlipDate]}

\* what the desktop form holds when Save Slip is pressed: voucher 7 for
\* either client and every count of nuts, and a form without voucher id
FormInputs ==
    [v_no : {<<"7">>},
     client_no : DOMAIN Clients,
     total_nuts : 1 .. MaxSlipNuts,
     price_each : {UnitPrice},
     date : {SlipDate}]
    \cup
    {[v_no |-> <<>>, client_no |-> 1, total_nuts |-> 1,
      price_each |-> UnitPrice, date |-> SlipDate]}

\* the answer of a handler that stopped before saving
NotSaved(files, message) ==
    [ok |-> FALSE, message |-> message, created |-> FALSE, saved |-> FALSE,
     path |-> <<>>, result |-> None, slip |-> <<>>, files |-> files]

\* slip_save on a slips directory: the JSON answer, the result and the slip
\* it built, and the directory afterwards
slip_save(files, payload) ==
    LET v_no == Strip(payload.v_no)
        typed_name == Strip(payload.client_name)
        client_no == IF typed_name # <<>> THEN 0 ELSE payload.client_no
        input_data_ == CalculationInput(v_no, client_no,
                           IF typed_name # <<>> THEN typed_name
                           ELSE Clients[client_no],
                           payload.total_nuts, payload.price_each, payload.date, None)
        called == calculate(input_data_)
        saved == save_slip_text_if_new(files, called.result[1],
                                       render_slip(called.result[1]))
    IN  IF v_no = <<>> THEN NotSaved(files, "V.No. is required")
        ELSE IF typed_name = <<>> /\ client_no \notin DOMAIN Clients
        THEN NotSaved(files, "Client No. not found in clients list")
        ELSE IF payload.total_nuts <= 0
        THEN NotSaved(files, "Total Coconuts must be > 0")
        ELSE IF DecLeqZero(payload.price_each)
        THEN NotSaved(files, "Price Each must be > 0")
        ELSE IF called.result = None THEN NotSaved(files, called.exc)
        ELSE [ok |-> saved.created,
              message |-> IF saved.created THEN "" ELSE "Already saved",
              created |-> saved.created, saved |-> TRUE, path |-> saved.path,
              result |-> called.result, slip |-> render_slip(called.result[1]),
              files |-> saved.files]

\* App.on_save on a slips directory, in the same shape
on_save(files, form) ==
    LET vno == Strip(form.v_no)
        data == CalculationInput(vno, form.client_no, Clients[form.client_no],
                                 form.total_nuts, form.price_each, form.date, None)
        called == calculate(data)
        saved == save_slip_text(files, called.result[1], render_slip(called.result[1]))
    IN  IF vno = <<>> THEN NotSaved(files, "V.No. cannot be empty")
        ELSE IF form.client_no \notin DOMAIN Clients
        THEN NotSaved(files, "Selected client not found")
        ELSE IF form.total_nuts <= 0
        THEN NotSaved(files, "Total Coconuts must be > 0")
        ELSE IF DecLeqZero(form.price_each)
        THEN NotSaved(files, "Price Each must be > 0")
        ELSE IF called.result = None THEN NotSaved(files, called.exc)
        ELSE [ok |-> TRUE, message |-> "", created |-> TRUE, saved |-> TRUE,
              path |-> saved.path, result |-> called.result,
              slip |-> render_slip(called.result[1]), files |-> saved.files]

\* the identity of a slip: voucher id, date and abbreviated party name
SlipKey(result) ==
    <<result.invoice_no, result.date,
      WithoutSpaces(shorten_client_name(result.client_name))>>

\* the save is the first under its key
IsFirst(out) == out.saved /\ SlipKey(out.result[1]) \notin DOMAIN first_saved

\* the first content given under each key, kept for the properties
Remember(out) ==
    IF IsFirst(out)
    THEN (SlipKey(out.result[1]) :> out.slip) @@ first_saved
    ELSE first_saved

\* a POST to /slip-save
SlipSave ==
    /\ \E payload \in SlipPayloads :
           \E out \in {slip_save(slips, payload)} :
               /\ slips' = out.files
               /\ save_out' = Some([op |-> "slip_save",
                                     first |-> IsFirst(out),
                                     ok |-> out.ok, message |-> out.message,
                                     created |-> out.created, saved |-> out.saved,
                                     path |-> out.path, result |-> out.result,
                                     slip |-> out.slip])
               /\ first_saved' = Remember(out)
    /\ UNCHANGED <<front_vars, file_vars, range_reports, calc_vars, ledger_vars, report_vars, race_vars>>

\* Save Slip pressed in the desktop form
OnSave ==
    /\ \E form \in FormInputs :
           \E out \in {on_save(slips, form)} :
               /\ slips' = out.files
               /\ save_out' = Some([op |-> "on_save",
                                     first |-> IsFirst(out),
                                     ok |-> out.ok, message |-> out.message,
                                     created |-> out.created, saved |-> out.saved,
                                     path |-> out.path, result |-> out.result,
                                     slip |-> out.slip])
               /\ first_saved' = Remember(out)
    /\ UNCHANGED <<front_vars, file_vars, range_reports, calc_vars, ledger_vars, report_vars, race_vars>>

NextSlip == SlipSave

SlipSpec == Init /\ [][NextSlip]_vars

NextSave == SlipSave \/ OnSave

SaveSpec == Init /\ [][NextSave]_vars

(***************************************************************************)
(* Saving range reports: the web handler /voucher-range-save.              *)
(***************************************************************************)
ReportTexts == {NoVouchersFound, <<"1", ".", " ", "A", " ", "(", "1", ")">>}

\* the JSON payloads: a party spelled two ways that sanitize to one name,
\* the voucher numbers 1 and 3 in either order, two report texts; a
\* payload without party; and one whose number is no integer
RangeSavePayloads ==
    [party_name : {<<"P", " ", "Q">>, <<" ", "P", "_", "Q">>},
     from_vno : {<<"1">>, <<" ", "3">>},
     to_vno : {<<"1">>, <<" ", "3">>},
     report_text : ReportTexts,
     date : {SlipDate}]
    \cup
    [party_name : {<<>>},
     from_vno : {<<>>, <<"x">>},
     to_vno : {<<"1">>},
     report_text : ReportTexts,
     date : {SlipDate}]

\* int(str(value or "0").strip())
int_or_zero(value) == int_of_text(FirstOf(value, <<"0">>))

\* voucher_range_save on a range_reports directory: the JSON answer and
\* the directory afterwards
voucher_range_save(files, payload, clock) ==
    LET party_name == Strip(payload.party_name)
        from_vno == int_or_zero(payload.from_vno)
        to_vno == int_or_zero(payload.to_vno)
        low == IF from_vno[1] <= to_vno[1] THEN from_vno[1] ELSE to_vno[1]
        high == IF from_vno[1] <= to_vno[1] THEN to_vno[1] ELSE from_vno[1]
        saved == save_range_report_if_new(files, party_name, low, high,
                                          payload.report_text, payload.date, clock)
    IN  IF from_vno = None \/ to_vno = None
        THEN [ok |-> FALSE, message |-> "invalid literal for int()",
              created |-> FALSE, saved |-> FALSE, path |-> <<>>, files |-> files]
        ELSE [ok |-> saved.created,
              message |-> IF saved.created THEN "" ELSE "Already saved",
              created |-> saved.created, saved |-> TRUE, path |-> saved.path,
              files |-> saved.files]

\* a POST to /voucher-range-save
RangeSave ==
    /\ \E payload \in RangeSavePayloads :
           \E out \in {voucher_range_save(range_reports, payload, now)} :
               /\ range_reports' = out.files
               /\ save_out' = Some([op |-> "range_save", payload |-> payload,
                                     before |-> range_reports,
                                     ok |-> out.ok, message |-> out.message,
                                     created |-> out.created, saved |-> out.saved,
                                     path |-> out.path])
    /\ UNCHANGED <<front_vars, file_vars, slips, first_saved, calc_vars, ledger_vars, report_vars, race_vars>>

NextRangeSave == RangeSave

RangeSaveSpec == Init /\ [][NextRangeSave]_vars

(***************************************************************************)
(* Two requests served at once (wsgi.py serves the application from a      *)
(* pool of threads): one request is inside append_history, another inside  *)
(* deduplicate_history, and nothing orders the file operations of the two. *)
(* dedup_pc is the position of the second request: "idle" before line 301  *)
(* and after line 333, "read" between the read (301-304) and the rewrite   *)
(* (328-332); dedup_rows is its local variable rows.                       *)
(***************************************************************************)
\* /generate reaches append_history (webapp.py:225): one row goes to the end
\* of the file as it is now
GenerateAppend ==
    /\ Len(ledger) < MaxRows
    /\ \E result \in LedgerResults, party_name \in PartySet :
           /\ ledger' = append_history(ledger, result, party_name, now)
           /\ appended' = Some(history_row(result, party_name, now))
    /\ last_op' = "append"
    /\ pre_rows' = <<>>
    /\ removed' = 0
    /\ UNCHANGED <<front_vars, file_vars, now, dedup_pc, dedup_rows, calc_vars, report_vars, artifact_vars>>

\* deduplicate_history reads the file (301-304); with no rows it returns
\* at once (305-306)
DedupRead ==
    /\ dedup_pc = "idle"
    /\ dedup_rows' = ledger
    /\ dedup_pc' = IF ledger = <<>> THEN "idle" ELSE "read"
    /\ UNCHANGED <<front_vars, file_vars, appended, calc_vars, ledger_vars, report_vars, artifact_vars>>

\* deduplicate_history rewrites the file from the rows it read (328-332)
DedupWrite ==
    /\ dedup_pc = "read"
    /\ ledger' = deduplicate_history(dedup_rows).unique_rows
    /\ removed' = deduplicate_history(dedup_rows).removed
    /\ pre_rows' = dedup_rows
    /\ last_op' = "dedup"
    /\ dedup_pc' = "idle"
    /\ UNCHANGED <<front_vars, file_vars, now, dedup_rows, appended, calc_vars, report_vars, artifact_vars>>

NextRace == GenerateAppend \/ DedupRead \/ DedupWrite

RaceSpec == Init /\ [][NextRace]_vars

(***************************************************************************)
(* append_history on history.csv as a front-end can find it.               *)
(***************************************************************************)
\* the header an earlier version wrote: the columns before party_name
LegacyHeader == SubSeq(fieldnames, 1, Len(fieldnames) - 1)

\* a row under LegacyHeader
LegacyCells(v_no, client_name, final_amount) ==
    SubSeq(RowCells(StoredRow(v_no, client_name, final_amount)), 1, Len(LegacyHeader))

\* the header of a book kept by hand: the older column names that
\* deduplicate_history still reads
HandHeader == <<"Date", "V.No.", "Name", "Amount">>

\* history.csv when append_history is called: not there; there with no
\* bytes; an earlier version's, with and without rows; a book kept by
\* hand; the present version's
StoredFiles ==
    {None,
     Some(CsvFile(<<>>, <<>>)),
     Some(CsvFile(LegacyHeader, <<>>)),
     Some(CsvFile(LegacyHeader,
                  <<LegacyCells(<<"7">>, <<"A", "b">>, <<"1", "0", "0", ".", "0">>),
                    LegacyCells(<<"8">>, <<"C">>, <<"-", "0", ".", "0", "6">>)>>)),
     Some(CsvFile(HandHeader,
                  <<<<format_date_for_csv(SlipDate), <<"7">>, <<"A", "b">>,
                      <<"1", "0", "0", ".", "0">>>>>>)),
     Some(CsvFile(fieldnames,
                  <<RowCells(StoredRow(<<"7">>, <<"A", "b">>, <<"0", ".", "3", "8">>))>>))}

FileParties == {<<>>, <<"P">>}

InitStoredFile ==
    /\ InitCalc
    /\ InitLedger
    /\ InitReport
    /\ InitArtifacts
    /\ InitRace
    /\ InitFront
    /\ history_csv \in StoredFiles
    /\ file_out = None

\* a front-end calls append_history
AppendHistoryCsv ==
    /\ Len(ensure_files_exist(history_csv).rows) < MaxRows
    /\ \E result \in LedgerResults, party_name \in FileParties :
           /\ history_csv' = append_history_csv(history_csv, result, party_name, now)
           /\ file_out' = Some([before |-> history_csv,
                                row |-> history_row(result, party_name, now)])
    /\ UNCHANGED <<front_vars, calc_vars, ledger_vars, report_vars, artifact_vars, race_vars>>

NextFile == AppendHistoryCsv

FileSpec == InitStoredFile /\ [][NextFile]_vars

(***************************************************************************)
(* The handlers that calculate a slip and record it: main of cli.py,       *)
(* App.on_action of gui.py and generate of webapp.py.  Each is given the   *)
(* rows of history.csv and the fields as they were typed, and gives the    *)
(* rows afterwards, whether calculate returned a result (returned), the    *)
(* message of the error otherwise, and the rows append_history was called  *)
(* with (appended).                                                        *)
(***************************************************************************)
\* Decimal(text) for a numeral with an optional exponent; None stands for
\* InvalidOperation
decimal_of_text(t) ==
    LET u == Strip(t)
        marks == {i \in 1 .. Len(u) : u[i] \in {"E", "e"}}
        cut == IF marks = {} THEN Len(u) + 1
               ELSE CHOOSE i \in marks : \A j \in marks : i <= j
        digits == SubSeq(u, 1, cut - 1)
        mantissa == IF digits = Strip(digits) THEN float_of_text(digits) ELSE None
        power == SubSeq(u, cut + 1, Len(u))
        exponent == IF marks = {} THEN Some(0)
                    ELSE IF power = Strip(power) THEN int_of_text(power) ELSE None
    IN  IF mantissa = None \/ exponent = None THEN None
        ELSE Some(Dec(mantissa[1].s, mantissa[1].c, mantissa[1].e + exponent[1]))

\* the handler stopped with an error before append_history
Refused(rows, message) ==
    [rows |-> rows, returned |-> FALSE, error |-> message, appended |-> <<>>]

\* the handler got a result; append_history was called when record is TRUE
Recorded(rows, result, party_name, clock, record) ==
    [rows |-> IF record THEN append_history(rows, result, party_name, clock) ELSE rows,
     returned |-> TRUE,
     error |-> "",
     appended |-> IF record THEN <<history_row(result, party_name, clock)>> ELSE <<>>]

\* main of cli.py up to line 165, with the flag it looks at on line 164
cli_run(rows, args, clock, preview) ==
    LET client_no == int_of_text(args.client_no)
        total_nuts == int_of_text(args.total_nuts)
        price_each == decimal_of_text(args.price_each)
        called == calculate(CalculationInput(args.v_no, client_no[1],
                                             Clients[client_no[1]], total_nuts[1],
                                             price_each[1], args.date[1], None))
    IN  IF client_no = None THEN Refused(rows, "Client No. must be an integer")
        ELSE IF client_no[1] <= 0 THEN Refused(rows, "Client No. must be > 0")
        ELSE IF total_nuts = None THEN Refused(rows, "Total coconuts must be an integer")
        ELSE IF total_nuts[1] <= 0 THEN Refused(rows, "Total coconuts must be > 0")
        ELSE IF price_each = None THEN Refused(rows, "Price each must be a number")
        ELSE IF DecLeqZero(price_each[1]) THEN Refused(rows, "Price each must be > 0")
        ELSE IF client_no[1] \notin DOMAIN Clients
        THEN Refused(rows, "Client No. not found in clients.csv (must be 1-20)")
        ELSE IF args.date = None THEN Refused(rows, "Invalid date.")
        ELSE IF called.result = None THEN Refused(rows, called.exc)
        ELSE Recorded(rows, called.result[1], <<>>, clock, ~preview)

\* (a variant of main that records the preview as well)
cli_main_recording_preview(rows, args, clock) == cli_run(rows, args, clock, FALSE)

cli_main(rows, args, clock) == cli_run(rows, args, clock, args.preview)

\* text.split("-", 1)[0]
BeforeDash(t) ==
    LET dashes == {i \in 1 .. Len(t) : t[i] = "-"}
    IN  IF dashes = {} THEN t
        ELSE SubSeq(t, 1, (CHOOSE i \in dashes : \A j \in dashes : i <= j) - 1)

\* App.on_action: _gather_inputs, calculate, render_slip, append_history
on_action(rows, form, clock) ==
    LET vno == Strip(form.v_no)
        client_no == int_of_text(BeforeDash(form.client_display))
        total == int_of_text(form.total_nuts)
        price == decimal_of_text(form.price_each)
        called == calculate(CalculationInput(vno, client_no[1], Clients[client_no[1]],
                                             total[1], price[1], form.date[1], None))
    IN  IF vno = <<>> THEN Refused(rows, "V.No. cannot be empty")
        ELSE IF client_no = None THEN Refused(rows, "Please select a valid client")
        ELSE IF client_no[1] \notin DOMAIN Clients
        THEN Refused(rows, "Selected client not found")
        ELSE IF total = None THEN Refused(rows, "Total Coconuts must be a positive integer")
        ELSE IF total[1] <= 0 THEN Refused(rows, "Total Coconuts must be > 0")
        ELSE IF price = None THEN Refused(rows, "Price Each must be a positive number")
        ELSE IF DecLeqZero(price[1]) THEN Refused(rows, "Price Each must be > 0")
        ELSE IF form.date = None THEN Refused(rows, "Invalid date.")
        ELSE IF called.result = None THEN Refused(rows, called.exc)
        ELSE Recorded(rows, called.result[1], <<>>, clock, TRUE)

\* name_to_no.get(typed_name, 0)
name_to_no(typed_name) ==
    IF \E k \in DOMAIN Clients : Clients[k] = typed_name
    THEN CHOOSE k \in DOMAIN Clients : Clients[k] = typed_name
    ELSE 0

\* generate, lines 169-232, up to the call of render_with
generate_body(rows, form, clock) ==
    LET v_no == Strip(form.v_no)
        typed_name == Strip(form.client_name)
        chosen == int_of_text(FirstOf(form.client_no, <<"0">>))
        client_no == IF typed_name # <<>> THEN name_to_no(typed_name) ELSE chosen[1]
        client_name == IF typed_name # <<>> THEN typed_name ELSE Clients[client_no]
        total_nuts == int_of_text(FirstOf(form.total_nuts, <<"0">>))
        price_each == decimal_of_text(FirstOf(form.price_each, <<"0">>))
        called == calculate(CalculationInput(v_no, client_no, client_name, total_nuts[1],
                                             price_each[1], form.date[1], None))
    IN  IF v_no = <<>> THEN Refused(rows, "V.No. cannot be empty")
        ELSE IF typed_name = <<>> /\ chosen = None
        THEN Refused(rows, "Client No. must be an integer")
        ELSE IF typed_name = <<>> /\ client_no \notin DOMAIN Clients
        THEN Refused(rows, "Client No. not found in clients list")
        ELSE IF total_nuts = None
        THEN Refused(rows, "Total Coconuts must be a positive integer")
        ELSE IF total_nuts[1] <= 0 THEN Refused(rows, "Total Coconuts must be > 0")
        ELSE IF price_each = None THEN Refused(rows, "Price Each must be a positive number")
        ELSE IF DecLeqZero(price_each[1]) THEN Refused(rows, "Price Each must be > 0")
        ELSE IF form.date = None THEN Refused(rows, "Invalid date.")
        ELSE IF called.result = None THEN Refused(rows, called.exc)
        ELSE Recorded(rows, called.result[1], Strip(form.party_name), clock, TRUE)

\* (a variant of render_with that leaves the file as it is)
render_with_no_cleanup(out) == out

\* render_with of generate: deduplicate_history, then the page
render_with(out) ==
    [out EXCEPT !.rows = deduplicate_history(out.rows).unique_rows]

generate(rows, form, clock) == render_with(generate_body(rows, form, clock))

(***************************************************************************)
(* What is typed into the three front-ends: one slip that is accepted, the *)
(* same slip at a price that gives the same final amount, and the slip     *)
(* with one field wrong at a time.                                         *)
(***************************************************************************)
HugePrice == <<"1", "E", "+", "2", "6">>

\* the command line: V.No. 7 for client 1 ("A B"), one nut at 0.49
Argv ==
    [v_no |-> <<"7">>, client_no |-> <<"1">>, total_nuts |-> <<"1">>,
     price_each |-> <<"0", ".", "4", "9">>, date |-> Some(SlipDate), preview |-> FALSE]

ArgvSet ==
    {Argv,
     [Argv EXCEPT !.price_each = <<"0", ".", "5", "0">>],
     [Argv EXCEPT !.preview = TRUE],
     [Argv EXCEPT !.v_no = <<>>],
     [Argv EXCEPT !.v_no = <<>>, !.preview = TRUE],
     [Argv EXCEPT !.client_no = <<"0">>],
     [Argv EXCEPT !.client_no = <<"9">>],
     [Argv EXCEPT !.total_nuts = <<"0">>],
     [Argv EXCEPT !.total_nuts = <<"x">>],
     [Argv EXCEPT !.price_each = <<"x">>],
     [Argv EXCEPT !.price_each = <<"-", "1">>],
     [Argv EXCEPT !.price_each = HugePrice],
     [Argv EXCEPT !.date = None]}

\* the desktop form
FormTyped ==
    [v_no |-> <<" ", "7">>, client_display |-> <<"1", " ", "-", " ", "A", " ", "B">>,
     total_nuts |-> <<"1">>, price_each |-> <<"0", ".", "4", "9">>,
     date |-> Some(SlipDate)]

FormTypedSet ==
    {FormTyped,
     [FormTyped EXCEPT !.v_no = <<" ">>],
     [FormTyped EXCEPT !.client_display = <<>>],
     [FormTyped EXCEPT !.client_display = <<"9", " ", "-", " ", "C">>],
     [FormTyped EXCEPT !.total_nuts = <<"0">>],
     [FormTyped EXCEPT !.total_nuts = <<>>],
     [FormTyped EXCEPT !.price_each = <<"0">>],
     [FormTyped EXCEPT !.price_each = HugePrice],
     [FormTyped EXCEPT !.date = None]}

\* the form posted to /generate
Posted ==
    [v_no |-> <<"7">>, client_name |-> <<>>, client_no |-> <<"1">>,
     total_nuts |-> <<"1">>, price_each |-> <<"0", ".", "4", "9">>,
     date |-> Some(SlipDate), party_name |-> <<>>]

PostedSet ==
    {Posted,
     [Posted EXCEPT !.price_each = <<"0", ".", "5", "0">>],
     [Posted EXCEPT !.client_name = <<"a", " ", "b">>, !.client_no = <<>>,
                    !.v_no = <<"7", " ">>, !.party_name = <<"P">>],
     [Posted EXCEPT !.v_no = <<"8">>],
     [Posted EXCEPT !.v_no = <<>>],
     [Posted EXCEPT !.client_no = <<"x">>],
     [Posted EXCEPT !.client_no = <<>>],
     [Posted EXCEPT !.total_nuts = <<>>],
     [Posted EXCEPT !.total_nuts = <<"-", "1">>],
     [Posted EXCEPT !.price_each = <<>>],
     [Posted EXCEPT !.price_each = <<"x">>],
     [Posted EXCEPT !.price_each = HugePrice],
     [Posted EXCEPT !.date = None]}

\* what a run leaves for the properties
RunOut(front, typed, preview, out) ==
    Some([front |-> front, typed |-> typed, preview |-> preview,
          returned |-> out.returned, error |-> out.error,
          appended |-> out.appended])

\* python -m src.cli ...
CliMain ==
    /\ Len(ledger) < MaxRows
    /\ \E args \in ArgvSet :
           \E out \in {cli_main(ledger, args, now)} :
               /\ ledger' = out.rows
               /\ run_out' = RunOut("cli", args, args.preview, out)
    /\ pre_rows' = ledger
    /\ removed' = 0
    /\ last_op' = "cli"
    /\ UNCHANGED <<now, file_vars, calc_vars, report_vars, artifact_vars, race_vars>>

\* Calculate pressed in the desktop form
OnAction ==
    /\ Len(ledger) < MaxRows
    /\ \E form \in FormTypedSet :
           \E out \in {on_action(ledger, form, now)} :
               /\ ledger' = out.rows
               /\ run_out' = RunOut("form", form, FALSE, out)
    /\ pre_rows' = ledger
    /\ removed' = 0
    /\ last_op' = "form"
    /\ UNCHANGED <<now, file_vars, calc_vars, report_vars, artifact_vars, race_vars>>

\* a POST to /generate
Generate ==
    /\ Len(ledger) < MaxRows
    /\ \E form \in PostedSet :
           \E out \in {generate(ledger, form, now)} :
               /\ ledger' = out.rows
               /\ run_out' = RunOut("generate", form, FALSE, out)
               /\ removed' = Len(ledger) + Len(out.appended) - Len(out.rows)
    /\ pre_rows' = ledger
    /\ last_op' = "generate"
    /\ UNCHANGED <<now, file_vars, calc_vars, report_vars, artifact_vars, race_vars>>

NextFront == CliMain \/ OnAction \/ Generate

FrontSpec == InitStored /\ [][NextFront]_vars

(***************************************************************************)
(* Reference arithmetic for the properties below: plain integers, written  *)
(* independently of the Decimal operators above.                           *)
(***************************************************************************)
In == input_data[1]
Out == outcome[1]
Res == outcome[1].result[1]
Called == outcome # None
HasResult == outcome # None /\ outcome[1].result # None

\* a 2-decimal Decimal of the result, in hundredths
Cents(d) == IF d.s = 1 THEN 0 - d.c ELSE d.c

\* r is num/den (den > 0) rounded to the nearest integer, a tie going to the
\* even neighbour
IsHalfEven(num, den, r) ==
    /\ 2 * Abs(num - r * den) <= den
    /\ 2 * Abs(num - r * den) = den => r % 2 = 0

\* the input passes the four validation rules
ValidInput(input) ==
    /\ input.total_nuts > 0
    /\ input.price_each_rupees.s = 0 /\ input.price_each_rupees.c > 0
    /\ input.invoice_no # <<>>
    /\ input.client_no >= 0

\* a price in thousandths of a rupee (prices of the model have at most three
\* decimal places)
PriceE3(price) == price.c * Pow10(price.e + 3)
TwoDecimal(price) == PriceE3(price) % 10 = 0

\* the common scale K (decimal places) at which gross, tax and labor are all
\* integers, and the three exact amounts at that scale
ScaleK(input) ==
    LET kp == 2 - input.price_each_rupees.e
        kl == 2 - input.labor_percent.e
    IN  IF kp > kl THEN kp ELSE kl
ExactGrossK(input, rem) ==
    rem * input.price_each_rupees.c * Pow10(ScaleK(input) + input.price_each_rupees.e)
ExactTaxK(input, rem) ==
    rem * input.price_each_rupees.c * Pow10(ScaleK(input) + input.price_each_rupees.e - 2)
ExactLaborK(input) ==
    input.total_nuts * Signed(input.labor_percent)
        * Pow10(ScaleK(input) + input.labor_percent.e - 2)
ExactFinalK(input, rem) ==
    ExactGrossK(input, rem) - ExactTaxK(input, rem) - ExactLaborK(input)

\* the result of the same call with another unit price
Repriced(price) == calculate([In EXCEPT !.price_each_rupees = price])

(***************************************************************************)
(* C1: calculate raises ValueError, returns no result and has computed no  *)
(* derived field whenever total_nuts <= 0, or the price <= 0, or the       *)
(* invoice id is empty, or client_no < 0; client_no = 0 is accepted.       *)
(***************************************************************************)
C1_ValidationRejects ==
    Called =>
        /\ ~ValidInput(In) =>
              /\ Out.exc = "ValueError"
              /\ Out.result = None
              /\ Out.computed = {}
        /\ ValidInput(In) => Out.exc # "ValueError"

C1_Witness ==
    /\ Called
    /\ In.client_no = -1 /\ In.total_nuts > 0 /\ In.invoice_no # <<>>
    /\ ~DecLeqZero(In.price_each_rupees)
    /\ Out.exc = "ValueError"

(***************************************************************************)
(* C2: for every positive n and positive price, with a non-empty invoice   *)
(* id and client_no >= 0, calculate does not raise, waste_nuts is 22n/1000 *)
(* rounded half-to-even and remaining_nuts = n - waste_nuts.               *)
(***************************************************************************)
C2_NeverRaisesAndWasteHalfEven ==
    (Called /\ ValidInput(In)) =>
        /\ Out.exc = ""
        /\ Out.result # None
        /\ IsHalfEven(22 * In.total_nuts, 1000, Res.waste_nuts)
        /\ Res.remaining_nuts = In.total_nuts - Res.waste_nuts

\* what does hold: whenever a result is returned its nuts are as C2 says
WasteHalfEvenWhenReturned ==
    HasResult =>
        /\ IsHalfEven(22 * In.total_nuts, 1000, Res.waste_nuts)
        /\ Res.remaining_nuts = In.total_nuts - Res.waste_nuts

(***************************************************************************)
(* C3: 5670 nuts at 22 rupees with 11% labor give waste 125, remaining     *)
(* 5545, gross 121990.00, tax 1219.90, labor 623.70 and final 120146.40.   *)
(***************************************************************************)
SampleCase ==
    /\ Called
    /\ ValidInput(In)
    /\ In.total_nuts = 5670
    /\ In.price_each_rupees = Dec(0, 22, 0)
    /\ In.labor_percent = Dec(0, 11, 0)

C3_SampleCase ==
    SampleCase =>
        /\ Out.result # None
        /\ Res.waste_nuts = 125
        /\ Res.remaining_nuts = 5545
        /\ Res.gross_amount = Dec(0, 12199000, -2)
        /\ Res.tax_amount = Dec(0, 121990, -2)
        /\ Res.labor_charges = Dec(0, 62370, -2)
        /\ Res.final_amount = Dec(0, 12014640, -2)

C3_Witness == SampleCase /\ Out.exc = ""

(***************************************************************************)
(* C4 as stated: the result's final_amount equals the result's 2-decimal   *)
(* gross_amount minus its tax_amount minus its labor_charges.              *)
(***************************************************************************)
C4_FinalIsDifferenceOfRounded ==
    HasResult =>
        Cents(Res.final_amount) =
            Cents(Res.gross_amount) - Cents(Res.tax_amount) - Cents(Res.labor_charges)

(***************************************************************************)
(* C4 amended: final_amount is the unrounded gross - tax - labor rounded   *)
(* once, half-to-even, to 2 decimals; it is within 0.02 of the difference  *)
(* of the three rounded amounts of the result.                             *)
(***************************************************************************)
C4_FinalRoundedOnce ==
    HasResult =>
        /\ IsHalfEven(ExactFinalK(In, Res.remaining_nuts),
                      Pow10(ScaleK(In) - 2),
                      Cents(Res.final_amount))
        /\ Abs(Cents(Res.final_amount)
                 - (Cents(Res.gross_amount) - Cents(Res.tax_amount)
                      - Cents(Res.labor_charges))) <= 2

C4_Witness ==
    /\ HasResult
    /\ TwoDecimal(In.price_each_rupees)
    /\ Cents(Res.final_amount) #
           Cents(Res.gross_amount) - Cents(Res.tax_amount) - Cents(Res.labor_charges)
    /\ Cents(Res.final_amount) > 0

(***************************************************************************)
(* C5 as stated: gross_amount is remaining_nuts x input price rounded once *)
(* half-to-even to 2 decimals, and it equals remaining_nuts x the price    *)
(* echoed in the result.                                                   *)
(***************************************************************************)
C5_GrossFromEchoedPrice ==
    HasResult =>
        /\ IsHalfEven(Res.remaining_nuts * PriceE3(In.price_each_rupees), 10,
                      Cents(Res.gross_amount))
        /\ Cents(Res.gross_amount) =
               Res.remaining_nuts * Cents(Res.price_each_rupees)

(***************************************************************************)
(* C5 amended: gross_amount is remaining_nuts x input price rounded once   *)
(* half-to-even to 2 decimals; it equals remaining_nuts x the echoed price *)
(* whenever the input price has at most two decimal places.                *)
(***************************************************************************)
C5_GrossRoundedOnce ==
    HasResult =>
        /\ IsHalfEven(Res.remaining_nuts * PriceE3(In.price_each_rupees), 10,
                      Cents(Res.gross_amount))
        /\ TwoDecimal(In.price_each_rupees) =>
               Cents(Res.gross_amount) =
                   Res.remaining_nuts * Cents(Res.price_each_rupees)

C5_Witness ==
    /\ HasResult
    /\ ~TwoDecimal(In.price_each_rupees)
    /\ (Res.remaining_nuts * PriceE3(In.price_each_rupees)) % 10 = 5
    /\ Cents(Res.gross_amount) # Res.remaining_nuts * Cents(Res.price_each_rupees)

(***************************************************************************)
(* C6 as stated: tax_amount is 1% of the result's 2-decimal gross_amount,  *)
(* rounded half-to-even to 2 decimals.                                     *)
(***************************************************************************)
C6_TaxOfRoundedGross ==
    HasResult =>
        IsHalfEven(Cents(Res.gross_amount), 100, Cents(Res.tax_amount))

(***************************************************************************)
(* C6 amended: tax_amount is 1% of the unrounded gross (remaining_nuts x   *)
(* input price) rounded half-to-even to 2 decimals; that is 1% of the      *)
(* result's gross_amount whenever the input price has at most two decimal  *)
(* places.                                                                 *)
(***************************************************************************)
C6_TaxOfExactGross ==
    HasResult =>
        /\ IsHalfEven(Res.remaining_nuts * PriceE3(In.price_each_rupees), 1000,
                      Cents(Res.tax_amount))
        /\ TwoDecimal(In.price_each_rupees) =>
               IsHalfEven(Cents(Res.gross_amount), 100, Cents(Res.tax_amount))

C6_Witness ==
    /\ HasResult
    /\ ~TwoDecimal(In.price_each_rupees)
    /\ ~IsHalfEven(Cents(Res.gross_amount), 100, Cents(Res.tax_amount))

(***************************************************************************)
(* C7: labor_charges is total_nuts x labor_percent / 100 rounded           *)
(* half-to-even to 2 decimals; it is the same for every unit price (and so *)
(* for every waste and remaining count the price is applied to); and       *)
(* labor_percent is 11 when the caller supplies none.                      *)
(***************************************************************************)
C7_LaborOnTotalNuts ==
    HasResult =>
        /\ IsHalfEven(In.total_nuts * Signed(In.labor_percent)
                          * Pow10(In.labor_percent.e + 1),
                      10, Cents(Res.labor_charges))
        /\ \A price \in PriceSet :
               LET other == Repriced(price)
               IN  other.result # None =>
                       other.result[1].labor_charges = Res.labor_charges
        /\ ~labor_given => In.labor_percent = Dec(0, 11, 0)
        /\ Res.labor_percent = In.labor_percent

C7_Witness ==
    /\ HasResult
    /\ labor_given
    /\ Res.waste_nuts > 0
    /\ (In.total_nuts * Signed(In.labor_percent) * Pow10(In.labor_percent.e + 1)) % 10 = 5

\* 99 x remaining x price < total x labor_percent, decided by the exponents
\* when they are too far apart to bring to one scale
NegativeFinal(input, rem) ==
    LET pe == input.price_each_rupees.e
        le == input.labor_percent.e
    IN  IF le - pe > 12 THEN input.labor_percent.s = 0
        ELSE IF pe - le > 12 THEN FALSE
        ELSE ExactFinalK(input, rem) < 0

ReferenceRemaining(n) ==
    CHOOSE rem \in 0 .. n : IsHalfEven(22 * n, 1000, n - rem)

(***************************************************************************)
(* C8: when gross - tax - labor is negative for a valid input, calculate   *)
(* does not raise and returns that negative value (rounded to 2 decimals)  *)
(* as final_amount, not clamped to zero.                                   *)
(***************************************************************************)
C8_NegativeFinalReturned ==
    (/\ Called
     /\ ValidInput(In)
     /\ NegativeFinal(In, ReferenceRemaining(In.total_nuts))) =>
        /\ Out.exc = ""
        /\ Out.result # None
        /\ IsHalfEven(ExactFinalK(In, Res.remaining_nuts),
                      Pow10(ScaleK(In) - 2),
                      Cents(Res.final_amount))
        /\ Res.final_amount.s = 1

\* what does hold: whenever a result is returned for a negative exact final
\* amount, final_amount is that amount rounded and carries the minus sign
NegativeFinalWhenReturned ==
    (HasResult /\ ExactFinalK(In, Res.remaining_nuts) < 0) =>
        /\ IsHalfEven(ExactFinalK(In, Res.remaining_nuts),
                      Pow10(ScaleK(In) - 2),
                      Cents(Res.final_amount))
        /\ Res.final_amount.s = 1

(***************************************************************************)
(* C9 as stated: with everything but the unit price fixed and p1 < p2, the *)
(* result for p2 has strictly greater gross_amount, strictly greater       *)
(* tax_amount and, when the final amounts are positive, strictly greater   *)
(* final_amount.                                                           *)
(***************************************************************************)
C9_StrictlyMonotone ==
    HasResult =>
        \A p2 \in PriceSet :
            LET other == Repriced(p2)
                r2 == other.result[1]
            IN  (/\ other.result # None
                 /\ PriceE3(In.price_each_rupees) < PriceE3(p2)) =>
                    /\ Cents(r2.gross_amount) > Cents(Res.gross_amount)
                    /\ Cents(r2.tax_amount) > Cents(Res.tax_amount)
                    /\ (Cents(Res.final_amount) > 0 /\ Cents(r2.final_amount) > 0) =>
                           Cents(r2.final_amount) > Cents(Res.final_amount)

(***************************************************************************)
(* C9 amended: with everything but the unit price fixed and p1 < p2, the   *)
(* result for p2 has gross_amount, tax_amount and final_amount no smaller  *)
(* than the result for p1 (the 2-decimal rounding can make them equal);    *)
(* gross_amount is strictly greater when both prices have at most two      *)
(* decimal places.                                                         *)
(***************************************************************************)
C9_Monotone ==
    HasResult =>
        \A p2 \in PriceSet :
            LET other == Repriced(p2)
                r2 == other.result[1]
            IN  (/\ other.result # None
                 /\ PriceE3(In.price_each_rupees) < PriceE3(p2)) =>
                    /\ Cents(r2.gross_amount) >= Cents(Res.gross_amount)
                    /\ Cents(r2.tax_amount) >= Cents(Res.tax_amount)
                    /\ Cents(r2.final_amount) >= Cents(Res.final_amount)
                    /\ (TwoDecimal(In.price_each_rupees) /\ TwoDecimal(p2)) =>
                           Cents(r2.gross_amount) > Cents(Res.gross_amount)

C9_Witness ==
    /\ HasResult
    /\ Cents(Res.final_amount) > 0
    /\ \E p2 \in PriceSet :
          /\ Repriced(p2).result # None
          /\ PriceE3(In.price_each_rupees) < PriceE3(p2)
          /\ TwoDecimal(In.price_each_rupees) /\ TwoDecimal(p2)
          /\ Repriced(p2).result[1].tax_amount = Res.tax_amount
          /\ Repriced(p2).result[1].final_amount = Res.final_amount

(***************************************************************************)
(* Reference definitions for the ledger properties, written independently  *)
(* of Strip, dedup_key and the loop.                                       *)
(***************************************************************************)
\* t without its leading and trailing whitespace
Trimmed(t) ==
    LET solid == {i \in 1 .. Len(t) : t[i] \notin Whitespace}
    IN  IF solid = {} THEN <<>>
        ELSE SubSeq(t, CHOOSE i \in solid : \A j \in solid : i <= j,
                       CHOOSE i \in solid : \A j \in solid : j <= i)

\* the key of a stored record as the specification words it
RecordKey(r) ==
    <<[i \in 1 .. Len(Trimmed(r.client_name)) |-> LowerChar(Trimmed(r.client_name)[i])],
      Trimmed(r.v_no),
      Trimmed(r.final_amount)>>

\* the positions of rows that are the first with their key
FirstOccurrences(rows) ==
    {i \in 1 .. Len(rows) :
        \A j \in 1 .. (i - 1) : RecordKey(rows[j]) # RecordKey(rows[i])}

\* the k-th smallest member of a set of positions
Kth(positions, k) ==
    CHOOSE i \in positions : Cardinality({j \in positions : j < i}) = k - 1

(***************************************************************************)
(* C10: deduplicate_history keeps, for each key (client name trimmed and   *)
(* lower-cased, voucher id trimmed, final amount text trimmed), exactly    *)
(* the first record in ledger order and drops every later one; the kept    *)
(* records are in their original relative order; the count returned is     *)
(* the number of records before minus the number kept.                     *)
(***************************************************************************)
C10_DedupKeepsFirst ==
    last_op = "dedup" =>
        /\ Len(ledger) = Cardinality(FirstOccurrences(pre_rows))
        /\ \A k \in 1 .. Len(ledger) :
               ledger[k] = pre_rows[Kth(FirstOccurrences(pre_rows), k)]
        /\ removed = Len(pre_rows) - Len(ledger)

C10_Witness ==
    /\ last_op = "dedup"
    /\ removed >= 1
    /\ Len(ledger) >= 2
    /\ \E i, j \in 1 .. Len(pre_rows) :
          /\ i < j
          /\ RecordKey(pre_rows[i]) = RecordKey(pre_rows[j])
          /\ pre_rows[i].client_name # pre_rows[j].client_name
          /\ pre_rows[i].v_no # pre_rows[j].v_no
          /\ pre_rows[i] = ledger[1]

(***************************************************************************)
(* C11: deduplication compares the final amount as text: two records with  *)
(* the same party and voucher id whose amounts are equal as numbers and    *)
(* different as text ("100.0", "100.00") have different keys, and a record *)
(* with each of the two amounts is kept.                                   *)
(***************************************************************************)
\* the value of an amount text in thousandths, for texts of at most three
\* decimals with an optional minus sign
AmountValue(t) ==
    LET minus == t # <<>> /\ t[1] = "-"
        u == IF minus THEN Tail(t) ELSE t
        whole == {i \in 1 .. Len(u) : \A j \in 1 .. i : u[j] # "."}
        int_digits == SubSeq(u, 1, Cardinality(whole))
        frac_digits == SubSeq(u, Cardinality(whole) + 2, Len(u))
        magnitude == TextToNat(int_digits) * 1000
                         + TextToNat(frac_digits) * Pow10(3 - Len(frac_digits))
    IN  IF minus THEN 0 - magnitude ELSE magnitude

\* rows i and j name one party and one voucher and amounts that are equal
\* as numbers and written differently
EqualAmountsWrittenDifferently(rows, i, j) ==
    /\ RecordKey(rows[i])[1] = RecordKey(rows[j])[1]
    /\ RecordKey(rows[i])[2] = RecordKey(rows[j])[2]
    /\ AmountValue(Trimmed(rows[i].final_amount))
           = AmountValue(Trimmed(rows[j].final_amount))
    /\ Trimmed(rows[i].final_amount) # Trimmed(rows[j].final_amount)

C11_AmountComparedAsText ==
    last_op = "dedup" =>
        \A i, j \in 1 .. Len(pre_rows) :
            EqualAmountsWrittenDifferently(pre_rows, i, j) =>
                /\ dedup_key(pre_rows[i]) # dedup_key(pre_rows[j])
                /\ \E a, b \in 1 .. Len(ledger) :
                       /\ a # b
                       /\ RecordKey(ledger[a]) = RecordKey(pre_rows[i])
                       /\ RecordKey(ledger[b]) = RecordKey(pre_rows[j])

C11_Witness ==
    /\ last_op = "dedup"
    /\ \E i, j \in 1 .. Len(pre_rows) :
          EqualAmountsWrittenDifferently(pre_rows, i, j)
    /\ Len(ledger) >= 2

(***************************************************************************)
(* Reference definitions for the range report, written independently of    *)
(* int_of_text, the filter loop, the sort and the padding operators.       *)
(***************************************************************************)
RangeOut == range_out[1]
Reported == range_out # None /\ last_op = "range" /\ RangeOut.error = ""

DigitChars == {"0", "1", "2", "3", "4", "5", "6", "7", "8", "9"}

\* the integer a text writes (blanks around it and a sign allowed), as a
\* one-element set, or the empty set when it writes none
NumberWritten(t) ==
    LET u == Trimmed(t)
        signed == u # <<>> /\ u[1] \in {"+", "-"}
        first == IF signed THEN 2 ELSE 1
        value == TextToNat(SubSeq(u, first, Len(u)))
    IN  IF first > Len(u) \/ \E i \in first .. Len(u) : u[i] \notin DigitChars
        THEN {}
        ELSE {IF signed /\ u[1] = "-" THEN 0 - value ELSE value}

VoucherNumber(r) == CHOOSE v \in NumberWritten(r.v_no) : TRUE

Smaller(x, y) == IF x <= y THEN x ELSE y
Larger(x, y) == IF x <= y THEN y ELSE x

\* the positions of the rows of the window given by two numbers
InWindow(rows, from, to) ==
    {i \in 1 .. Len(rows) :
        \E v \in NumberWritten(rows[i].v_no) :
            Smaller(from, to) <= v /\ v <= Larger(from, to)}

\* position i comes before position j in the report
ReportedBefore(rows, i, j) ==
    \/ VoucherNumber(rows[i]) < VoucherNumber(rows[j])
    \/ VoucherNumber(rows[i]) = VoucherNumber(rows[j]) /\ i < j

\* the position of the row of the k-th entry
EntryPosition(rows, positions, k) ==
    CHOOSE i \in positions :
        Cardinality({j \in positions : ReportedBefore(rows, j, i)}) = k - 1

\* the numbers typed into the two fields, and the positions they select
FromTyped == CHOOSE v \in NumberWritten(RangeOut.from_no) : TRUE
ToTyped == CHOOSE v \in NumberWritten(RangeOut.to_no) : TRUE
Selected == InWindow(pre_rows, FromTyped, ToTyped)

\* a text cut at its line breaks
LineBreaks(t) == {i \in 1 .. Len(t) : t[i] = "\n"}
LineCount(t) == Cardinality(LineBreaks(t)) + 1
LineOf(t, k) ==
    LET breaks == LineBreaks(t)
        start == IF k = 1 THEN 1
                 ELSE 1 + CHOOSE i \in breaks :
                              Cardinality({j \in breaks : j < i}) = k - 2
        stop == IF k = LineCount(t) THEN Len(t)
                ELSE (CHOOSE i \in breaks :
                          Cardinality({j \in breaks : j < i}) = k - 1) - 1
    IN  SubSeq(t, start, stop)

(***************************************************************************)
(* C12: the voucher-range report for a window (from, to) lists exactly the *)
(* ledger records whose voucher id parses as an integer v with             *)
(* min(from,to) <= v <= max(from,to); records with a non-numeric voucher   *)
(* id are skipped without error; entries are in ascending voucher id with  *)
(* records of equal id in ledger order; the report for (from, to) equals   *)
(* the report for (to, from).                                              *)
(***************************************************************************)
C12_RangeReportLists ==
    Reported =>
        /\ Len(RangeOut.filtered) = Cardinality(Selected)
        /\ Len(RangeOut.entries) = Cardinality(Selected)
        /\ \A k \in 1 .. Len(RangeOut.filtered) :
               LET i == EntryPosition(pre_rows, Selected, k)
               IN  /\ RangeOut.filtered[k].r = pre_rows[i]
                   /\ RangeOut.filtered[k].v_int = VoucherNumber(pre_rows[i])
        /\ LET swapped == voucher_range(pre_rows, RangeOut.to_no, RangeOut.from_no)
           IN  /\ swapped.error = ""
               /\ swapped.report_text = RangeOut.report_text
               /\ swapped.filtered = RangeOut.filtered

\* the window was typed high-to-low, the file has a row with no number and
\* is not in voucher order, and two listed rows share a voucher id
C12_Witness ==
    /\ Reported
    /\ FromTyped > ToTyped
    /\ \E i \in 1 .. Len(pre_rows) : NumberWritten(pre_rows[i].v_no) = {}
    /\ \E i \in 1 .. Len(pre_rows) :
          /\ NumberWritten(pre_rows[i].v_no) # {}
          /\ i \notin Selected
    /\ \E k \in 1 .. Len(RangeOut.filtered) - 1 :
          RangeOut.filtered[k].v_int = RangeOut.filtered[k + 1].v_int
    /\ \E i, j \in Selected :
          i < j /\ VoucherNumber(pre_rows[i]) > VoucherNumber(pre_rows[j])

(***************************************************************************)
(* C13: when no ledger record falls in the voucher window (an empty        *)
(* ledger and a ledger with only non-numeric voucher ids included), the    *)
(* range report is the fixed text "No vouchers found in this range" and    *)
(* never an empty table; when at least one record falls in the window the  *)
(* report has exactly one line per such record.                            *)
(***************************************************************************)
MarkerText ==
    <<"N", "o", " ", "v", "o", "u", "c", "h", "e", "r", "s", " ",
      "f", "o", "u", "n", "d", " ", "i", "n", " ", "t", "h", "i", "s", " ",
      "r", "a", "n", "g", "e">>

C13_MarkerOrOneLinePerRecord ==
    Reported =>
        /\ RangeOut.report_text # None
        /\ RangeOut.report_text[1] # <<>>
        /\ Selected = {} => RangeOut.report_text[1] = MarkerText
        /\ Selected # {} =>
               /\ RangeOut.report_text[1] # MarkerText
               /\ LineCount(RangeOut.report_text[1]) = Cardinality(Selected)
               /\ \A k \in 1 .. Cardinality(Selected) :
                      LineOf(RangeOut.report_text[1], k) # <<>>

\* the file has rows, all with voucher ids that are no numbers
C13_Witness ==
    /\ Reported
    /\ pre_rows # <<>>
    /\ \A i \in 1 .. Len(pre_rows) : NumberWritten(pre_rows[i].v_no) = {}
    /\ RangeOut.report_text = Some(MarkerText)

(***************************************************************************)
(* C14: for every ledger amount that calculate can produce (a 2-decimal    *)
(* value, positive, zero or negative), the range report's amount string is *)
(* the integer part grouped in the South-Asian convention (last three      *)
(* digits, then groups of two), followed by "." and exactly two decimal    *)
(* digits if and only if the fractional part is non-zero, and the string   *)
(* denotes the same numeric value as the stored amount.                    *)
(***************************************************************************)
\* the digits of a natural number with a comma wherever three digits, or
\* three and a multiple of two, follow
GroupedDigits(n) ==
    LET digits == NatToText(n)
        CommaAfter(i) == Len(digits) - i >= 3 /\ (Len(digits) - i - 3) % 2 = 0
        Piece(i) == IF CommaAfter(i) THEN <<digits[i], ",">> ELSE <<digits[i]>>
        RECURSIVE Pieces(_)
        Pieces(i) == IF i > Len(digits) THEN <<>> ELSE Piece(i) \o Pieces(i + 1)
    IN  Pieces(1)

\* how an amount of so many hundredths is to be written
AmountWritten(hundredths) ==
    LET magnitude == Abs(hundredths)
    IN  (IF hundredths < 0 THEN <<"-">> ELSE <<>>)
            \o GroupedDigits(magnitude \div 100)
            \o (IF magnitude % 100 # 0
                THEN <<".">> \o NatToText((magnitude % 100) \div 10)
                         \o NatToText(magnitude % 10)
                ELSE <<>>)

\* the stored amount of the k-th entry, in hundredths
EntryHundredths(k) ==
    AmountValue(Trimmed(RangeOut.filtered[k].r.final_amount)) \div 10

C14_AmountFormat ==
    Reported =>
        \A k \in 1 .. Len(RangeOut.entries) :
            RangeOut.entries[k].amt_text = AmountWritten(EntryHundredths(k))

\* what does hold: the amounts that are not negative are written as C14
\* says, a negative amount loses its sign, and its paise are written with
\* a minus sign after the point
NonNegativeAmountFormat ==
    Reported =>
        \A k \in 1 .. Len(RangeOut.entries) :
            LET hundredths == EntryHundredths(k)
                text == RangeOut.entries[k].amt_text
            IN  /\ hundredths >= 0 => text = AmountWritten(hundredths)
                /\ (hundredths < 0 /\ hundredths % 100 = 0) =>
                       text = AmountWritten(0 - hundredths)
                /\ (hundredths < 0 /\ hundredths % 100 # 0) =>
                       text = GroupedDigits((0 - hundredths) \div 100)
                                  \o <<".", "-">>
                                  \o NatToText((0 - hundredths) % 100)

\* amounts with one and with two commas and with and without paise are
\* among the reported ones
GroupedAmountsReported ==
    /\ Reported
    /\ \E k \in 1 .. Len(RangeOut.entries) : EntryHundredths(k) = 154365200
    /\ \E k \in 1 .. Len(RangeOut.entries) : EntryHundredths(k) = 12014640
    /\ \E k \in 1 .. Len(RangeOut.entries) : EntryHundredths(k) = 1

(***************************************************************************)
(* C15: in a non-empty range report with k entries, line i (1-based) is    *)
(* the index i right-justified to the digit count of k, then ". ", the     *)
(* label "<client name> (<voucher id>)" left-justified to the longest      *)
(* label, then "  =  " (two spaces on each side), then the amount          *)
(* right-justified to the longest amount; so all lines of one report have  *)
(* the same length and the "=" is in the same column on every line.  The   *)
(* client name is the stored one without surrounding blanks and the        *)
(* voucher id is the number the stored id writes.                          *)
(***************************************************************************)
PadLeft(t, width) ==
    [j \in 1 .. Larger(width, Len(t)) |->
        IF j <= width - Len(t) THEN " " ELSE t[j - Larger(width - Len(t), 0)]]
PadRight(t, width) ==
    [j \in 1 .. Larger(width, Len(t)) |-> IF j <= Len(t) THEN t[j] ELSE " "]

\* the label of the k-th entry, from the row it stands for
EntryLabel(k) ==
    LET r == pre_rows[EntryPosition(pre_rows, Selected, k)]
    IN  Trimmed(r.client_name) \o <<" ", "(">>
            \o IntToText(VoucherNumber(r)) \o <<")">>

EntryCount == Cardinality(Selected)
IndexWidth == Len(NatToText(EntryCount))
LabelWidth ==
    CHOOSE w \in {Len(EntryLabel(k)) : k \in 1 .. EntryCount} :
        \A k \in 1 .. EntryCount : Len(EntryLabel(k)) <= w
AmountWidth ==
    CHOOSE w \in {Len(RangeOut.entries[k].amt_text) : k \in 1 .. EntryCount} :
        \A k \in 1 .. EntryCount : Len(RangeOut.entries[k].amt_text) <= w

C15_LinesAligned ==
    (Reported /\ Selected # {}) =>
        \A i \in 1 .. EntryCount :
            LET line == LineOf(RangeOut.report_text[1], i)
            IN  /\ line = PadLeft(NatToText(i), IndexWidth) \o <<".", " ">>
                             \o PadRight(EntryLabel(i), LabelWidth)
                             \o <<" ", " ", "=", " ", " ">>
                             \o PadLeft(RangeOut.entries[i].amt_text, AmountWidth)
                /\ Len(line) = IndexWidth + 2 + LabelWidth + 5 + AmountWidth
                /\ line[IndexWidth + 2 + LabelWidth + 3] = "="

\* ten entries or more, labels and amounts of several lengths, and a row
\* whose stored voucher id has a blank before the number
C15_Witness ==
    /\ Reported
    /\ EntryCount >= 10
    /\ \E i, j \in 1 .. EntryCount :
          /\ Len(EntryLabel(i)) < Len(EntryLabel(j))
          /\ Len(RangeOut.entries[i].amt_text) > Len(RangeOut.entries[j].amt_text)
    /\ \E i \in Selected : pre_rows[i].v_no # IntToText(VoucherNumber(pre_rows[i]))

(***************************************************************************)
(* Reference definitions for the saved slips.                              *)
(***************************************************************************)
SaveOut == save_out[1]

\* the file name of a slip key, spelled out
SlipName(key) ==
    <<"V", "N", "o">> \o key[1] \o <<"_">>
        \o NatToText(key[2].year * 10000 + key[2].month * 100 + key[2].day)
        \o <<"_">> \o key[3] \o <<".", "t", "x", "t">>

\* every key saved so far still has the content of its first save
FirstContentKept ==
    \A key \in DOMAIN first_saved :
        /\ SlipName(key) \in DOMAIN slips
        /\ slips[SlipName(key)] = first_saved[key]

(***************************************************************************)
(* C16: save_slip_text_if_new is idempotent by identity: for any sequence  *)
(* of calls, the first call for a given (voucher id, date, abbreviated     *)
(* party name) creates the artifact and returns created=True; every later  *)
(* call with the same key returns created=False, leaves the artifact's     *)
(* content unchanged (even when the new content differs) and creates no    *)
(* second artifact.                                                        *)
(***************************************************************************)
C16_SaveIfNewIdempotent ==
    /\ FirstContentKept
    /\ Cardinality(DOMAIN slips) = Cardinality(DOMAIN first_saved)
    /\ (save_out # None /\ SaveOut.saved) =>
           /\ SaveOut.created = SaveOut.first
           /\ SaveOut.path = SlipName(SlipKey(SaveOut.result[1]))

\* a later call under a key already saved, with another content, while
\* another key has its own artifact
C16_Witness ==
    /\ save_out # None
    /\ SaveOut.op = "slip_save"
    /\ SaveOut.saved
    /\ ~SaveOut.first
    /\ ~SaveOut.created
    /\ SaveOut.slip # slips[SaveOut.path]
    /\ Cardinality(DOMAIN slips) >= 2

(***************************************************************************)
(* C17: save_range_report_if_new computes the artifact name as a function  *)
(* of only (sanitized party name, from voucher, to voucher, date); if an   *)
(* artifact with that name exists it returns created=False and leaves it   *)
(* unchanged, otherwise it creates it and returns created=True; the web    *)
(* save handler passes the window normalized so that (from,to) and         *)
(* (to,from) map to the same artifact.                                     *)
(***************************************************************************)
RangeSaved == save_out # None /\ SaveOut.op = "range_save" /\ SaveOut.saved

\* what the name may depend on: the sanitized party, the two ends of the
\* window and the date
RangeIdentity(payload) ==
    LET from == CHOOSE v \in NumberWritten(FirstOf(payload.from_vno, <<"0">>)) : TRUE
        to == CHOOSE v \in NumberWritten(FirstOf(payload.to_vno, <<"0">>)) : TRUE
    IN  <<sanitize_filename_component(payload.party_name),
          Smaller(from, to), Larger(from, to), payload.date>>

\* the file name of an identity, spelled out
RangeName(identity) ==
    NatToText(identity[4].year * 10000 + identity[4].month * 100 + identity[4].day)
        \o <<"_", "V">> \o IntToText(identity[2]) \o <<"-">>
        \o IntToText(identity[3]) \o <<"_">> \o identity[1]
        \o <<".", "t", "x", "t">>

\* the payloads of the model whose two numbers are integers
IntegerPayloads ==
    {payload \in RangeSavePayloads :
        /\ NumberWritten(FirstOf(payload.from_vno, <<"0">>)) # {}
        /\ NumberWritten(FirstOf(payload.to_vno, <<"0">>)) # {}}

C17_RangeSaveIfNew ==
    RangeSaved =>
        /\ SaveOut.path = RangeName(RangeIdentity(SaveOut.payload))
        /\ \A other \in IntegerPayloads :
               RangeIdentity(other) = RangeIdentity(SaveOut.payload) =>
                   voucher_range_save(SaveOut.before, other, now).path = SaveOut.path
        /\ SaveOut.created = (SaveOut.path \notin DOMAIN SaveOut.before)
        /\ ~SaveOut.created => range_reports = SaveOut.before
        /\ SaveOut.created =>
               /\ DOMAIN range_reports = DOMAIN SaveOut.before \cup {SaveOut.path}
               /\ \A name \in DOMAIN SaveOut.before :
                      range_reports[name] = SaveOut.before[name]
               /\ \E k \in 1 .. Len(range_reports[SaveOut.path]) :
                      SubSeq(range_reports[SaveOut.path], k,
                             Len(range_reports[SaveOut.path]))
                          = SaveOut.payload.report_text

\* the artifact exists with another report text under another spelling of
\* the party, and the window is given high-to-low
C17_Witness ==
    /\ RangeSaved
    /\ ~SaveOut.created
    /\ SaveOut.payload.from_vno = <<" ", "3">>
    /\ SaveOut.payload.to_vno = <<"1">>
    /\ \A k \in 1 .. Len(range_reports[SaveOut.path]) :
          SubSeq(range_reports[SaveOut.path], k, Len(range_reports[SaveOut.path]))
              # SaveOut.payload.report_text
    /\ SubSeq(range_reports[SaveOut.path], 8, 7 + Len(Trimmed(SaveOut.payload.party_name)))
          # Trimmed(SaveOut.payload.party_name)
    /\ Cardinality(DOMAIN range_reports) >= 2

(***************************************************************************)
(* C18: the no-overwrite policy holds for slip artifacts on every save     *)
(* path: after any sequence of slip saves issued through the web handler   *)
(* (/slip-save) and the desktop form (Save Slip), the content of an        *)
(* existing slip artifact is never replaced by a later save with the same  *)
(* (voucher id, date, abbreviated party name) key.                         *)
(***************************************************************************)
C18_NoOverwriteOnAnySavePath ==
    \A key \in DOMAIN first_saved : slips[SlipName(key)] = first_saved[key]

\* what does hold: a save through the web handler replaces nothing
WebSaveKeepsContent ==
    [][SlipSave => \A name \in DOMAIN slips : slips'[name] = slips[name]]_vars

(***************************************************************************)
(* C19: the ledger is append-only: across any sequence of the operations   *)
(* the front-ends perform (append_history, deduplicate_history as run by   *)
(* the page load, the range report and the voucher lookup), the earlier    *)
(* content of the ledger is a prefix of its later content; no operation    *)
(* removes or reorders a stored record.                                    *)
(***************************************************************************)
IsPrefixOf(earlier, later) ==
    /\ Len(earlier) <= Len(later)
    /\ \A i \in 1 .. Len(earlier) : later[i] = earlier[i]

C19_LedgerAppendOnly ==
    last_op = "dedup" => IsPrefixOf(pre_rows, ledger)

\* what does hold: append_history adds one record after the stored ones
AppendKeepsStoredRecords ==
    [][AppendHistory => /\ Len(ledger') = Len(ledger) + 1
                        /\ IsPrefixOf(ledger, ledger')]_vars

DuplicateRemoved == last_op = "dedup" /\ removed > 0

(***************************************************************************)
(* C20: no completed append is lost when two requests are served at once:  *)
(* for every interleaving of an append_history with the read, filter and   *)
(* rewrite of a deduplicate_history, once both have finished the ledger    *)
(* holds the appended record or an earlier record with the same key.       *)
(***************************************************************************)
HoldsKeyOf(rows, row) ==
    \E i \in 1 .. Len(rows) : dedup_key(rows[i]) = dedup_key(row)

C20_NoAppendLost ==
    (dedup_pc = "idle" /\ appended # None) => HoldsKeyOf(ledger, appended[1])

\* what does hold: a rewrite loses nothing of what the request had read,
\* and an append that came before the read is kept
RewriteKeepsWhatWasRead ==
    last_op = "dedup" =>
        \A i \in 1 .. Len(pre_rows) : HoldsKeyOf(ledger, pre_rows[i])

AppendDuringDedup == dedup_pc = "read" /\ last_op = "append"

(***************************************************************************)
(* C26: for every positive total_nuts n, a result of calculate has         *)
(* 0 <= waste_nuts < n and so remaining_nuts >= 1; a remaining count of    *)
(* zero or less is not reachable at the 2.2% rate, and gross_amount is     *)
(* never negative.                                                         *)
(***************************************************************************)
C26_WasteBelowTotal ==
    HasResult =>
        /\ In.total_nuts >= 1
        /\ 0 <= Res.waste_nuts
        /\ Res.waste_nuts < In.total_nuts
        /\ Res.remaining_nuts >= 1
        /\ Cents(Res.gross_amount) >= 0
        /\ Res.gross_amount.s = 0

\* one nut: nothing is taken off, and the one nut remains
C26_Witness ==
    /\ HasResult
    /\ In.total_nuts = 1
    /\ Res.waste_nuts = 0
    /\ Res.remaining_nuts = 1

\* a result whose waste is not zero
WasteTaken == HasResult /\ Res.waste_nuts >= 1

(***************************************************************************)
(* C25: in a ledger whose records were all written by append_history the   *)
(* final_amount text has the fixed two-decimal form, and so the            *)
(* deduplication keyed on the text keeps the same records and returns the  *)
(* same count as a deduplication keyed on the numeric value of the amount. *)
(***************************************************************************)
\* digits, a point and two digits, after an optional minus sign
TwoDecimalForm(t) ==
    LET u == IF t # <<>> /\ t[1] = "-" THEN Tail(t) ELSE t
    IN  /\ Len(u) >= 4
        /\ u[Len(u) - 2] = "."
        /\ \A i \in (1 .. Len(u)) \ {Len(u) - 2} : u[i] \in DigitChars

\* the key with the amount as a number
NumericKey(r) ==
    <<RecordKey(r)[1], RecordKey(r)[2], AmountValue(Trimmed(r.final_amount))>>

\* the positions of rows that are the first with their numeric key
NumericFirstOccurrences(rows) ==
    {i \in 1 .. Len(rows) :
        \A j \in 1 .. (i - 1) : NumericKey(rows[j]) # NumericKey(rows[i])}

SameAsNumericDedup ==
    /\ Len(ledger) = Cardinality(NumericFirstOccurrences(pre_rows))
    /\ \A k \in 1 .. Len(ledger) :
           ledger[k] = pre_rows[Kth(NumericFirstOccurrences(pre_rows), k)]
    /\ removed = Len(pre_rows) - Cardinality(NumericFirstOccurrences(pre_rows))

C25_TextDedupIsNumericDedup ==
    /\ \A i \in 1 .. Len(ledger) : TwoDecimalForm(ledger[i].final_amount)
    /\ last_op = "dedup" => SameAsNumericDedup

\* what does hold: every amount append_history writes has the two-decimal
\* form, and the two deduplications agree unless the ledger holds a zero
\* written with a minus sign
NegativeZero(t) == t # <<>> /\ t[1] = "-" /\ AmountValue(t) = 0

AppendedAmountsTwoDecimal ==
    \A i \in 1 .. Len(ledger) : TwoDecimalForm(ledger[i].final_amount)

NumericDedupWithoutNegativeZero ==
    (/\ last_op = "dedup"
     /\ \A i \in 1 .. Len(pre_rows) : ~NegativeZero(pre_rows[i].final_amount))
        => SameAsNumericDedup

NumericDuplicateRemoved ==
    /\ last_op = "dedup"
    /\ removed >= 1
    /\ \A i \in 1 .. Len(pre_rows) : ~NegativeZero(pre_rows[i].final_amount)

(***************************************************************************)
(* C21: append_history adds exactly one record, at the end of the ledger,  *)
(* and leaves every record stored before in place, in order and with its   *)
(* field values; when the stored ledger has no party_name column the       *)
(* column is added and every older record reads back with an empty         *)
(* party_name and all its other fields unchanged.                          *)
(***************************************************************************)
FileBefore == file_out[1].before
RecordsBefore == read_history_rows(FileBefore)
RecordsAfter == read_history_rows(history_csv)
HadPartyColumn == "party_name" \in Names(ensure_files_exist(FileBefore).header)

\* record later is record earlier with an empty party_name added
WithEmptyParty(earlier, later) ==
    /\ DOMAIN later = DOMAIN earlier \cup {"party_name"}
    /\ later["party_name"] = <<>>
    /\ \A name \in DOMAIN earlier : later[name] = earlier[name]

C21_AppendAddsOneRecord ==
    file_out # None =>
        /\ Len(RecordsAfter) = Len(RecordsBefore) + 1
        /\ "party_name" \in Names(history_csv[1].header)
        /\ \A i \in 1 .. Len(RecordsBefore) :
               IF HadPartyColumn THEN RecordsAfter[i] = RecordsBefore[i]
               ELSE WithEmptyParty(RecordsBefore[i], RecordsAfter[i])

\* an append to an earlier version's file that held records
C21_Witness ==
    /\ file_out # None
    /\ ~HadPartyColumn
    /\ Len(RecordsBefore) >= 2
    /\ Len(RecordsAfter) = Len(RecordsBefore) + 1
    /\ RecordsAfter[1]["party_name"] = <<>>
    /\ RecordsAfter[1]["v_no"] = RecordsBefore[1]["v_no"]

\* the new record reads back as the row that was written whenever the
\* stored header had the columns of fieldnames, with or without party_name
StandardHeader ==
    ensure_files_exist(FileBefore).header \in {fieldnames, LegacyHeader}

NewRecordReadsBack ==
    (file_out # None /\ StandardHeader) =>
        RecordsAfter[Len(RecordsAfter)] = file_out[1].row

\* and the record-level append_history used for the ledger agrees with the
\* file-level one on a file of the present version
AgreesWithRecordAppend ==
    (file_out # None /\ ensure_files_exist(FileBefore).header = fieldnames) =>
        RecordsAfter = Append(RecordsBefore, file_out[1].row)

NewRecordUnderOtherHeader ==
    /\ file_out # None
    /\ ~StandardHeader
    /\ restkey \in DOMAIN RecordsAfter[Len(RecordsAfter)]

(***************************************************************************)
(* C24: the voucher-range report is de-duplicated before it is shown: the  *)
(* report text of /voucher-range never has two entries that come from      *)
(* ledger records with one dedup key (client name, voucher id and final    *)
(* amount text).                                                           *)
(***************************************************************************)
C24_ReportDeduplicated ==
    Reported =>
        /\ \A k, l \in 1 .. Len(RangeOut.filtered) :
               k # l => RecordKey(RangeOut.filtered[k].r) # RecordKey(RangeOut.filtered[l].r)
        /\ RangeOut.filtered # <<>> =>
               LineCount(RangeOut.report_text[1])
                   = Cardinality({RecordKey(pre_rows[i]) : i \in Selected})

\* what does hold: a report with entries leaves the file without
\* duplicates for the next request
NoDuplicateKeys(rows) ==
    \A i, j \in 1 .. Len(rows) : i # j => RecordKey(rows[i]) # RecordKey(rows[j])

FileDeduplicatedAfterReport ==
    (Reported /\ RangeOut.filtered # <<>>) => NoDuplicateKeys(ledger)

DuplicateReported ==
    /\ Reported
    /\ \E k \in 1 .. Len(RangeOut.filtered) - 1 :
          RecordKey(RangeOut.filtered[k].r) = RecordKey(RangeOut.filtered[k + 1].r)
    /\ Len(ledger) < Len(pre_rows)

(***************************************************************************)
(* Reference definitions for the runs of the front-ends, written           *)
(* independently of the parsing operators of the handlers.                 *)
(***************************************************************************)
Run == run_out[1]
Ran == run_out # None

\* no positive whole number is written
NoPositiveCount(t) == \A v \in NumberWritten(t) : v <= 0

\* no positive price is written: a character that belongs to no numeral, a
\* minus sign in front, or no digit other than 0 before the exponent
NoPositivePrice(t) ==
    LET u == Trimmed(t)
        exponent == {i \in 1 .. Len(u) : u[i] = "E"}
        last == IF exponent = {} THEN Len(u) ELSE (CHOOSE i \in exponent : TRUE) - 1
    IN  \/ \E i \in 1 .. Len(u) : u[i] \notin DigitChars \cup {".", "E", "+", "-"}
        \/ u # <<>> /\ u[1] = "-"
        \/ \A i \in 1 .. last : u[i] \in {"0", "."}

\* what was typed cannot pass validation, whatever the client
FailsValidation(typed) ==
    \/ Trimmed(typed.v_no) = <<>>
    \/ NoPositiveCount(typed.total_nuts)
    \/ NoPositivePrice(typed.price_each)
    \/ typed.date = None

\* every record of later is a record of earlier
KeptOnly(earlier, later) ==
    /\ Len(later) <= Len(earlier)
    /\ \A k \in 1 .. Len(later) : \E i \in 1 .. Len(earlier) : earlier[i] = later[k]

(***************************************************************************)
(* C22: a transaction whose input fails validation appends nothing to the  *)
(* ledger: in the command line, the Calculate action of the desktop form   *)
(* and the web /generate handler append_history runs only after calculate  *)
(* has returned a result; the command line with --preview appends nothing  *)
(* even on success, and a successful run without it appends exactly one    *)
(* record.                                                                 *)
(***************************************************************************)
C22_NoAppendWithoutResult ==
    Ran =>
        /\ FailsValidation(Run.typed) => ~Run.returned
        /\ ~Run.returned =>
               /\ Run.appended = <<>>
               /\ KeptOnly(pre_rows, ledger)
               /\ Run.front \in {"cli", "form"} => ledger = pre_rows
        /\ (Run.front = "cli" /\ Run.preview) =>
               Run.appended = <<>> /\ ledger = pre_rows
        /\ (Run.front \in {"cli", "form"} /\ Run.returned /\ ~Run.preview) =>
               /\ Len(Run.appended) = 1
               /\ Len(ledger) = Len(pre_rows) + 1
               /\ ledger = Append(pre_rows, Run.appended[1])
        /\ (Run.front = "generate" /\ Run.returned) => Len(Run.appended) = 1

\* a form that fails validation is posted to /generate while the ledger
\* holds records
C22_Witness ==
    /\ Ran
    /\ Run.front = "generate"
    /\ FailsValidation(Run.typed)
    /\ ~Run.returned
    /\ pre_rows # <<>>
    /\ ledger = pre_rows

PreviewReturned == Ran /\ Run.front = "cli" /\ Run.preview /\ Run.returned

CalculateRaised ==
    Ran /\ ~FailsValidation(Run.typed) /\ Run.error = "InvalidOperation"

FormRecorded ==
    Ran /\ Run.front = "form" /\ Run.returned /\ Len(ledger) = Len(pre_rows) + 1

(***************************************************************************)
(* C23: after every completed /generate request, successful or rejected,   *)
(* the ledger has no two records with the same dedup key, whatever it held *)
(* before; submitting the same slip (client name, voucher id and final     *)
(* amount) any number of times leaves exactly one record for it.           *)
(***************************************************************************)
C23_GenerateLeavesNoDuplicates ==
    (Ran /\ Run.front = "generate") =>
        /\ NoDuplicateKeys(ledger)
        /\ Run.returned =>
               Cardinality({i \in 1 .. Len(ledger) :
                               RecordKey(ledger[i]) = RecordKey(Run.appended[1])}) = 1

\* the slip posted was in the ledger already, and so were two records of
\* one key that another front-end had left
C23_Witness ==
    /\ Ran
    /\ Run.front = "generate"
    /\ Run.returned
    /\ ~NoDuplicateKeys(pre_rows)
    /\ \E i \in 1 .. Len(pre_rows) : RecordKey(pre_rows[i]) = RecordKey(Run.appended[1])
    /\ removed >= 2

RejectedGenerateCleans ==
    /\ Ran
    /\ Run.front = "generate"
    /\ ~Run.returned
    /\ Len(ledger) < Len(pre_rows)

====
